---- MODULE Spec2Model ----
(***************************************************************************)
(* Connection lifecycle and schema deploy/update orchestrators of the      *)
(* sqldb package.  One Config is modelled; the database driver is the      *)
(* environment: every driver call that can fail draws its outcome from a   *)
(* small set.  An orchestrator call is a sequence of steps (pc is its      *)
(* position); deferred calls are kept on a stack and run last-in-first-out *)
(* when the function returns.                                              *)
(*                                                                         *)
(* Two generations of the Update orchestrator are modelled side by side:   *)
(* UpdateSchemaWithOps, which runs the Job inside a transaction, and       *)
(* UpdateSchema, which runs it on the Session itself.                      *)
(***************************************************************************)
EXTENDS Integers, Sequences, FiniteSets, TLC

\* ------------------------------------------------------------------ bounds
\* Number of top-level calls (Connect, Close, DeploySchema, UpdateSchema...)
\* a behaviour makes.
MaxOps == 2
\* Statements and callbacks of a Job.
NumQueries == 2
NumFuncs == 2

\* Handles that can be in use at once: one leaked by each call (a Connect
\* whose ping failed), the stored connection, DeploySchema's server-level conn.
MaxHandles == MaxOps + 2

Handles == 1..MaxHandles
\* Database instances: 0 is the persistent store (file or server database);
\* instance h is the in-memory database private to handle h.
DbIds == 0..MaxHandles

\* ------------------------------------------------------------------ state
VARIABLES
    inMemory,     \* the config names an in-memory SQLite database
    valid,        \* c.validate() would return nil
    chain,        \* the config's error handler chain
    dbExists,     \* the persistent database (file / server database) exists
    connection,   \* c.connection: 0 is nil, else the handle
    openHandles,  \* handles returned by sqlx.Open and not yet closed
    committed,    \* committed[d]: schema changes visible in database d
    ops,          \* number of top-level calls made so far
    pc,           \* position of the running call
    op,           \* the running (or last) call
    closeConn,    \* opts.CloseConnection of the call
    srv,          \* DeploySchema's server-level conn (0: none)
    qi,           \* index of the next statement
    fi,           \* index of the next callback
    defers,       \* stack of deferred calls of the running call
    tx,           \* transaction of the call
    pending,      \* changes made inside the open transaction
    err,          \* the call's result, "nil" for success
    log,          \* what the call did, in order
    snap,         \* schema of the Session's database when the Job started
    reused,       \* the call adopted a Session that was already open
    \* One evaluation of the error classifier, statement by statement of its
    \* code (ClassifySpec).
    hChain,       \* the handlers of the config, in order
    hErr,         \* the execution error passed in ("ok": nil)
    hIdx,         \* position of the loop over the handlers
    hCalls,       \* the handlers invoked so far, in order
    hRet,         \* the value returned
    hpc,          \* position in the classifier
    \* One evaluation of a translator chain runner (TranslateSpec).
    tFn,          \* which runner is evaluated
    tChain,       \* the translators of the config, in order
    tIn,          \* the statement passed in
    tOut,         \* the runner's variable out
    tIdx,         \* position of the loop over the translators
    tpc,          \* position in the runner
    tCall,        \* the runner is in its first or second call on tIn
    tFirst,       \* what the first call returned
    \* One call of a provided error handler (HandlerSpec).
    eName,        \* the handler called
    eQuery,       \* the statement: the keywords its text contains
    eMsg,         \* the error: the phrases its message contains
    eRet,         \* the value returned
    epc,          \* position in the handler
    \* UpdateSchemaWithOps of src/sqldb-updateSchema.go called on a config c
    \* while the package holds its own configuration cfg (MixedSpec).
    mCfg,         \* what the package-level cfg points to: "nil", "c", "other"
    mClose,       \* ops.CloseConnection
    mConn,        \* c.connection: "nil", "open", "closed"
    mOther,       \* the connection of the other config: "nil", "open", "closed"
    mDeferred,    \* defer c.Close() is registered
    mQi,          \* next statement of c.UpdateQueries
    mFi,          \* next callback of cfg.UpdateFuncs
    mErr,         \* the call's result
    mLog,         \* executions of the call, in order
    mpc,          \* position in the function
    \* One call of a translation rule on a statement (RuleSpec).
    rFn,          \* the rule called
    rIn,          \* its argument: the statement, a sequence of tokens
    rQ,           \* the working text (query / out)
    rPanic,       \* the call panicked (slice bounds out of range)
    rIter,        \* iterations of the current for loop so far
    rpc,          \* position in the rule
    \* The diagnostic line an orchestrator writes before it executes one
    \* statement (DiagSpec).
    dFn,          \* the orchestrator
    dLen,         \* len(q), in bytes
    dNewline,     \* the trimmed statement spans more than one line
    dCreate,      \* the statement contains "CREATE TABLE"
    dParen,       \* strings.Index(q, "("): -1 when there is none
    dLevel,       \* c.LoggingLevel
    dLines,       \* lines written to the log
    dRan,         \* the statement was executed
    dpc,          \* position in the loop body
    \* The Connect and Close calls made on the config so far (LifeSpec).
    calls         \* per call: its result, c.connection and the open handles
                  \* before and after

cfgVars  == <<inMemory, valid, chain>>
connVars == <<connection, openHandles>>
dbVars   == <<dbExists, committed>>
callVars == <<op, closeConn, srv, qi, fi, defers, tx, pending, err, log, snap, reused>>
classVars == <<hChain, hErr, hIdx, hCalls, hRet, hpc>>
transVars == <<tFn, tChain, tIn, tOut, tIdx, tpc, tCall, tFirst>>
handVars == <<eName, eQuery, eMsg, eRet, epc>>
mixVars == <<mCfg, mClose, mConn, mOther, mDeferred, mQi, mFi, mErr, mLog, mpc>>
ruleVars == <<rFn, rIn, rQ, rPanic, rIter, rpc>>
diagVars == <<dFn, dLen, dNewline, dCreate, dParen, dLevel, dLines, dRan, dpc>>
lifeVars == <<calls>>
pureVars == <<classVars, transVars, handVars, mixVars, ruleVars, diagVars, lifeVars>>
sysVars == <<inMemory, valid, chain, dbExists, connection, openHandles,
             committed, ops, pc, op, closeConn, srv, qi, fi, defers, tx,
             pending, err, log, snap, reused>>
vars == <<sysVars, pureVars>>

\* ------------------------------------------------------------------ helpers
\* A log entry: what was done (ev), to which item of the Job (n), against
\* what (on: "tx", "db", "srv", or the handler's name), with which outcome
\* (res), through which handle (h).
Ev(e, n, on, res, h) == [ev |-> e, n |-> n, on |-> on, res |-> res, h |-> h]

\* A schema change.  Statement idx of the Deploy Job and statement idx of the
\* Update Job bring about the same element of the schema (a column that new
\* installs create and old installs add); likewise the callbacks.
Eff(kind, idx) == <<kind, idx>>

\* Database a handle is attached to.
DbOf(h) == IF inMemory THEN h ELSE 0

\* Outcomes of executing a statement: success, an error of the re-run kind
\* ("duplicate column"), any other error.
ExecOutcomes == {"ok", "dup", "fatal"}
FuncOutcomes == {"ok", "fail"}
ConnectOutcomes == {"ok", "openFail", "pingFail"}

\* The database answers with the re-run error only when the statement's
\* change is already part of the schema it runs against.
Possible(out, eff, schema) == out = "dup" => eff \in schema

\* Error handler chains a config may list: hDup claims the re-run error,
\* hAll claims every error.
Chains == {<<>>, <<"hDup">>, <<"hAll">>, <<"hDup", "hAll">>}

\* A handler's verdict on an error.
Claims(h, e) ==
    CASE h = "hDup" -> e = "dup"
      [] h = "hAll" -> TRUE
      [] OTHER -> FALSE

\* A call can start: no call is running.
Idle == pc \in {"idle", "done"}

\* The handle the next sqlx.Open returns: one that is neither open nor still
\* referenced by the config or by the running call (excl).
Fresh(excl) ==
    CHOOSE h \in Handles :
        /\ h \notin openHandles \cup {connection} \cup excl
        /\ \A g \in Handles :
              g \notin openHandles \cup {connection} \cup excl => h <= g

\* Connected() with the ping's verdict inverted.
ConnectedInverted == connection # 0 /\ connection \notin openHandles

\* c.Connected(): a handle is stored and it answers a ping.
Connected == connection # 0 /\ connection \in openHandles

\* Connected() pings only when a handle is stored.
ConnectedLog ==
    IF connection # 0 THEN <<Ev("ping", 0, "db", "", connection)>> ELSE <<>>

\* A Close that leaves the handle as it is.
CloseHandleKeeps(oh, h) == oh

\* A Close that reopens a handle that is closed.
CloseHandleReopens(oh, h) == IF h \in oh THEN oh \ {h} ELSE oh \cup {h}

\* c.connection.Close() on handle h: the handle is closed; an in-memory
\* database dies with its handle.
CloseHandle(oh, h) == oh \ {h}
CloseDb(cm, h) == IF inMemory /\ h # 0 THEN [cm EXCEPT ![h] = {}] ELSE cm

\* An abort that honours the caller's keep-open request.
AbortCloseIfAsked(oh, h) == IF closeConn THEN CloseHandle(oh, h) ELSE oh

\* The c.Close() an orchestrator calls before returning an error of the Job.
AbortClose(oh, h) == CloseHandle(oh, h)

\* A loop that steps over the item after the one it ran.
NextItemSkips(i) == i + 2

\* The range loops visit the items one after the other.
NextItem(i) == i + 1

\* runDeployQueryErrorHandlers / runUpdateQueryErrorHandlers /
\* ignoreUpdateSchemaErrors: index of the first handler claiming e, 0 if none.
FirstClaim(ch, e) ==
    IF \E k \in 1..Len(ch) : Claims(ch[k], e)
    THEN CHOOSE k \in 1..Len(ch) :
            /\ Claims(ch[k], e)
            /\ \A m \in 1..(k - 1) : ~Claims(ch[m], e)
    ELSE 0

\* The handlers invoked for the error e of statement idx, in order.
HandlerCalls(ch, e, idx) ==
    LET k == FirstClaim(ch, e)
        last == IF k = 0 THEN Len(ch) ELSE k
    IN  [m \in 1..last |-> Ev("handler", idx, ch[m], e, 0)]

RunQueryErrorHandlers(ch, e) ==
    IF e = "ok" THEN TRUE ELSE FirstClaim(ch, e) # 0

\* ------------------------------------------------------------------ Init
\* No classifier and no translator runner is being evaluated.
ClassIdle ==
    /\ hChain = <<>>
    /\ hErr = "ok"
    /\ hIdx = 0
    /\ hCalls = <<>>
    /\ hRet = FALSE
    /\ hpc = "none"

TransIdle ==
    /\ tFn = "none"
    /\ tChain = <<>>
    /\ tIn = <<>>
    /\ tOut = <<>>
    /\ tIdx = 0
    /\ tpc = "none"
    /\ tCall = 0
    /\ tFirst = <<>>

HandIdle ==
    /\ eName = "none"
    /\ eQuery = {}
    /\ eMsg = {}
    /\ eRet = FALSE
    /\ epc = "none"

MixIdle ==
    /\ mCfg = "nil"
    /\ mClose = FALSE
    /\ mConn = "nil"
    /\ mOther = "nil"
    /\ mDeferred = FALSE
    /\ mQi = 1
    /\ mFi = 1
    /\ mErr = "nil"
    /\ mLog = <<>>
    /\ mpc = "none"

RuleIdle ==
    /\ rFn = "none"
    /\ rIn = <<>>
    /\ rQ = <<>>
    /\ rPanic = FALSE
    /\ rIter = 0
    /\ rpc = "none"

DiagIdle ==
    /\ dFn = "none"
    /\ dLen = 0
    /\ dNewline = FALSE
    /\ dCreate = FALSE
    /\ dParen = -1
    /\ dLevel = 0
    /\ dLines = 0
    /\ dRan = FALSE
    /\ dpc = "none"

LifeIdle == calls = <<>>

PureIdle ==
    ClassIdle /\ TransIdle /\ HandIdle /\ MixIdle /\ RuleIdle /\ DiagIdle /\ LifeIdle

Init ==
    /\ PureIdle
    /\ inMemory \in BOOLEAN
    /\ valid \in BOOLEAN
    /\ chain \in Chains
    /\ dbExists = FALSE
    /\ connection = 0
    /\ openHandles = {}
    /\ committed = [d \in DbIds |-> {}]
    /\ ops = 0
    /\ pc = "idle"
    /\ op = "none"
    /\ closeConn = FALSE
    /\ srv = 0
    /\ qi = 1
    /\ fi = 1
    /\ defers = <<>>
    /\ tx = "none"
    /\ pending = {}
    /\ err = "nil"
    /\ log = <<>>
    /\ snap = {}
    /\ reused = FALSE

\* The frame of a call that starts: loop indices, no transaction.
\* The options argument of an orchestrator: a nil pointer, or a struct whose
\* CloseConnection is true ("close") or false ("keep").
Opts == {"nil", "close", "keep"}

\* A nil pointer read as the zero-value struct.
CloseConnectionOfZero(opts) == opts = "close"

\* opts.CloseConnection after "set default opts if none were provided".
CloseConnectionOf(opts) == IF opts = "nil" THEN TRUE ELSE opts = "close"

NewFrame(o, cc) ==
    /\ op' = o
    /\ closeConn' = cc
    /\ qi' = 1
    /\ fi' = 1
    /\ tx' = "none"
    /\ pending' = {}

\* ------------------------------------------------------------------ Connect
\* Result of c.Connect() when the driver would answer co.  A persistent
\* database that does not exist is refused before the open (SQLite: os.Stat)
\* or at the ping (server: unknown database).
ConnectErr(co) ==
    IF Connected THEN "ErrConnected"
    ELSE IF ~valid THEN "config"
    ELSE IF ~inMemory /\ ~dbExists /\ co = "ok" THEN "notExist"
    ELSE IF co = "openFail" THEN "open"
    ELSE IF co = "pingFail" THEN "ping"
    ELSE "nil"

\* sqlx.Open returned a handle during this Connect.
ConnectOpened(co) == ConnectErr(co) \in {"ping", "nil"}

ConnectLog(co, h) ==
    ConnectedLog \o
    (IF ConnectOpened(co)
     THEN <<Ev("open", 0, "db", "", h), Ev("ping", 0, "db", co, h)>>
     ELSE <<>>)

\* A Connect that stores whatever handle it obtained.
DoConnectAlways(co, oh, h) ==
    /\ connection' = h
    /\ openHandles' = oh \cup {h}

\* c.Connect() obtaining handle h: the handle is stored only after a
\* successful ping; a handle whose ping failed is returned from without being
\* closed.  oh is the set of open handles when Connect is entered.
DoConnect(co, oh, h) ==
    /\ connection' = IF ConnectErr(co) = "nil" THEN h ELSE connection
    /\ openHandles' = IF ConnectOpened(co) THEN oh \cup {h} ELSE oh

ConnectCall(co) ==
    /\ Idle
    /\ ops' = ops + 1
    /\ NewFrame("Connect", FALSE)
    /\ DoConnect(co, openHandles, Fresh({}))
    /\ err' = ConnectErr(co)
    /\ log' = ConnectLog(co, Fresh({}))
    /\ pc' = "done"
    /\ srv' = 0
    /\ defers' = <<>>
    /\ snap' = {}
    /\ reused' = FALSE
    /\ UNCHANGED <<cfgVars, dbVars>>

Connect(co) ==
    /\ ops < MaxOps
    /\ ConnectCall(co)
    /\ UNCHANGED pureVars

\* ------------------------------------------------------------------ Close
\* c.Close() is c.connection.Close(): on a nil connection it dereferences
\* nil; on a closed handle it is a no-op.
CloseCall ==
    /\ Idle
    /\ ops' = ops + 1
    /\ NewFrame("Close", FALSE)
    /\ IF connection = 0
       THEN /\ pc' = "panic"
            /\ log' = <<>>
            /\ UNCHANGED <<openHandles, committed>>
       ELSE /\ pc' = "done"
            /\ openHandles' = CloseHandle(openHandles, connection)
            /\ committed' = CloseDb(committed, connection)
            /\ log' = <<Ev("close", 0, "db", "", connection)>>
    /\ err' = "nil"
    /\ srv' = 0
    /\ defers' = <<>>
    /\ snap' = {}
    /\ reused' = FALSE
    /\ UNCHANGED <<cfgVars, dbExists, connection>>

Close ==
    /\ ops < MaxOps
    /\ CloseCall
    /\ UNCHANGED pureVars

\* The caller assigns an exported field of the Config (c.SQLitePath = "")
\* between two calls.
MutateConfig ==
    /\ Idle
    /\ ops < MaxOps
    /\ valid' = ~valid
    /\ NewFrame("none", FALSE)
    /\ pc' = "idle"
    /\ err' = "nil"
    /\ log' = <<>>
    /\ srv' = 0
    /\ defers' = <<>>
    /\ snap' = {}
    /\ reused' = FALSE
    /\ UNCHANGED <<pureVars, inMemory, chain, connVars, dbVars, ops>>

\* ------------------------------------------------------------------ return
\* A Rollback that undoes the transaction whether it is open or not.
DeferredUndoes(d, st) ==
    CASE d = "conn.Close" ->
            [st EXCEPT !.oh = CloseHandle(@, srv),
                       !.log = Append(@, Ev("close", 0, "srv", "", srv))]
      [] d = "c.Close" ->
            [st EXCEPT !.oh = CloseHandle(@, connection),
                       !.cm = CloseDb(@, connection),
                       !.log = Append(@, Ev("close", 0, "db", "", connection))]
      [] d = "tx.Rollback" ->
            [st EXCEPT !.tx = "rolledback",
                       !.pending = {},
                       !.cm = [@ EXCEPT ![DbOf(connection)] = snap],
                       !.log = Append(@, Ev("rollback", 0, "tx", st.tx, connection))]

\* One deferred call d applied to st = [oh, cm, tx, pending, log].
Deferred(d, st) ==
    CASE d = "conn.Close" ->
            [st EXCEPT !.oh = CloseHandle(@, srv),
                       !.log = Append(@, Ev("close", 0, "srv", "", srv))]
      [] d = "c.Close" ->
            [st EXCEPT !.oh = CloseHandle(@, connection),
                       !.cm = CloseDb(@, connection),
                       !.log = Append(@, Ev("close", 0, "db", "", connection))]
      [] d = "tx.Rollback" ->
            [st EXCEPT !.tx = IF @ = "open" THEN "rolledback" ELSE @,
                       !.pending = IF st.tx = "open" THEN {} ELSE @,
                       !.log = Append(@, Ev("rollback", 0, "tx", st.tx, connection))]

\* A return that runs no deferred call.
RunDefersNone(ds, st) == st

\* The deferred calls of the returning function, last registered first.
RECURSIVE RunDefers(_, _)
RunDefers(ds, st) ==
    IF ds = <<>> THEN st
    ELSE RunDefers(SubSeq(ds, 1, Len(ds) - 1), Deferred(ds[Len(ds)], st))

\* The function returns: its deferred calls run, the caller has the result.
RunDeferred ==
    /\ pc = "ret"
    /\ LET st == RunDefers(defers, [oh |-> openHandles, cm |-> committed,
                                    tx |-> tx, pending |-> pending, log |-> log])
       IN  /\ openHandles' = st.oh
           /\ committed' = st.cm
           /\ tx' = st.tx
           /\ pending' = st.pending
           /\ log' = st.log
    /\ defers' = <<>>
    /\ pc' = "done"
    /\ UNCHANGED <<pureVars, cfgVars, dbExists, connection, ops, op, closeConn, srv, qi,
                   fi, err, snap, reused>>

\* ------------------------------------------------------------------ DeploySchema
\* Entry of DeploySchema up to the open of the server-level conn.
DeploySchema(cc, oo) ==
    /\ Idle
    /\ ops < MaxOps
    /\ ops' = ops + 1
    /\ NewFrame("Deploy", cc)
    /\ reused' = FALSE
    /\ snap' = {}
    /\ IF Connected
       THEN /\ err' = "ErrConnected"
            /\ pc' = "ret"
            /\ log' = ConnectedLog
            /\ srv' = 0
            /\ defers' = <<>>
            /\ UNCHANGED openHandles
       ELSE IF ~valid
       THEN /\ err' = "config"
            /\ pc' = "ret"
            /\ log' = ConnectedLog
            /\ srv' = 0
            /\ defers' = <<>>
            /\ UNCHANGED openHandles
       ELSE IF oo = "openFail"
       THEN /\ err' = "open"
            /\ pc' = "ret"
            /\ log' = ConnectedLog
            /\ srv' = 0
            /\ defers' = <<>>
            /\ UNCHANGED openHandles
       ELSE /\ err' = "nil"
            /\ pc' = "d_create"
            /\ srv' = Fresh({})
            /\ openHandles' = openHandles \cup {Fresh({})}
            /\ defers' = <<"conn.Close">>
            /\ log' = Append(ConnectedLog, Ev("open", 0, "srv", "", Fresh({})))
    /\ UNCHANGED <<pureVars, cfgVars, dbVars, connection>>

\* A create-database step whose error is not looked at.
CreateFailsUnchecked(out) == FALSE

\* The create-database statement, or the SQLite ping, returned an error.
CreateFails(out) == out # "ok"

\* CREATE DATABASE IF NOT EXISTS on the server-level conn, or the ping that
\* materialises a SQLite file.
DeployCreateDatabase(out) ==
    /\ pc = "d_create"
    /\ log' = Append(log, Ev("createdb", 0, "srv", out, srv))
    /\ dbExists' = IF out = "ok" THEN (dbExists \/ ~inMemory) ELSE dbExists
    /\ IF CreateFails(out)
       THEN /\ err' = "create"
            /\ pc' = "ret"
       ELSE /\ pc' = "d_connect"
            /\ UNCHANGED err
    /\ UNCHANGED <<pureVars, cfgVars, connVars, committed, ops, op, closeConn,
                   srv, qi, fi, defers, tx, pending, snap, reused>>

\* conn.Close() on the server-level conn, then c.Connect() and the
\* conditional defer of c.Close().
DeployConnect(clo, co) ==
    /\ pc = "d_connect"
    /\ committed' = CloseDb(committed, srv)
    /\ IF clo # "ok"
       THEN /\ err' = "close"
            /\ pc' = "ret"
            /\ openHandles' = CloseHandle(openHandles, srv)
            /\ log' = Append(log, Ev("close", 0, "srv", clo, srv))
            /\ UNCHANGED <<connection, defers, snap>>
       ELSE /\ DoConnect(co, CloseHandle(openHandles, srv), Fresh({srv}))
            /\ log' = Append(log, Ev("close", 0, "srv", clo, srv))
                         \o ConnectLog(co, Fresh({srv}))
            /\ err' = ConnectErr(co)
            /\ IF ConnectErr(co) # "nil"
               THEN /\ pc' = "ret"
                    /\ UNCHANGED <<defers, snap>>
               ELSE /\ pc' = "d_job"
                    /\ defers' = IF closeConn THEN Append(defers, "c.Close")
                                 ELSE defers
                    /\ snap' = committed[DbOf(Fresh({srv}))]
    /\ UNCHANGED <<pureVars, cfgVars, dbExists, ops, op, closeConn, srv, qi, fi,
                   tx, pending, reused>>

\* Every execution error ends the Job, claimed or not.
QueryAbortsOnAnyError(ch, out) == out # "ok"

\* The classifier's verdict read the wrong way round.
QueryAbortsInverted(ch, out) == out # "ok" /\ RunQueryErrorHandlers(ch, out)

\* The statement's error is fatal: non-nil and claimed by no handler.
QueryAborts(ch, out) == out # "ok" /\ ~RunQueryErrorHandlers(ch, out)

\* The handlers run on the result of every execution, failed or not.
QueryLogUnconditional(ch, idx, out, on) ==
    <<Ev("exec", idx, on, out, connection)>> \o HandlerCalls(ch, out, idx)

\* A loop that opens a new Session for every statement.
QueryLogReconnects(ch, idx, out, on) ==
    <<Ev("open", 0, "db", "", Fresh({})), Ev("exec", idx, on, out, Fresh({}))>> \o
    (IF out # "ok" THEN HandlerCalls(ch, out, idx) ELSE <<>>)

\* What executing statement idx and classifying its error adds to the log.
QueryLog(ch, idx, out, on) ==
    <<Ev("exec", idx, on, out, connection)>> \o
    (IF out # "ok" THEN HandlerCalls(ch, out, idx) ELSE <<>>)

\* One iteration of the DeployQueries loop.
DeployQuery(out) ==
    /\ pc = "d_job"
    /\ qi <= NumQueries
    /\ Possible(out, Eff("q", qi), committed[DbOf(connection)])
    /\ IF out = "ok"
       THEN committed' = [committed EXCEPT ![DbOf(connection)] =
                             @ \cup {Eff("q", qi)}]
       ELSE IF QueryAborts(chain, out)
       THEN committed' = CloseDb(committed, connection)
       ELSE UNCHANGED committed
    /\ IF QueryAborts(chain, out)
       THEN /\ err' = out
            /\ openHandles' = AbortClose(openHandles, connection)
            /\ log' = Append(log \o QueryLog(chain, qi, out, "db"),
                             Ev("close", 0, "db", "", connection))
            /\ pc' = "ret"
            /\ UNCHANGED qi
       ELSE /\ qi' = NextItem(qi)
            /\ log' = log \o QueryLog(chain, qi, out, "db")
            /\ UNCHANGED <<err, openHandles, pc>>
    /\ UNCHANGED <<pureVars, cfgVars, dbExists, connection, ops, op,
                   closeConn, srv, fi, defers, tx, pending, snap, reused>>

\* A callback's error classified like a statement's.
FuncAbortsByChain(ch, out) == out # "ok" /\ ~RunQueryErrorHandlers(ch, out)

\* The callback's error is fatal: the handler chain is not consulted.
FuncAborts(ch, out) == out # "ok"

\* One iteration of the DeployFuncs loop.
DeployFunc(out) ==
    /\ pc = "d_job"
    /\ qi > NumQueries
    /\ fi <= NumFuncs
    /\ IF FuncAborts(chain, out)
       THEN /\ err' = "func"
            /\ openHandles' = AbortClose(openHandles, connection)
            /\ committed' = CloseDb(committed, connection)
            /\ log' = log \o <<Ev("func", fi, "db", out, connection),
                               Ev("close", 0, "db", "", connection)>>
            /\ pc' = "ret"
            /\ UNCHANGED fi
       ELSE /\ fi' = NextItem(fi)
            /\ committed' = IF out = "ok"
                            THEN [committed EXCEPT ![DbOf(connection)] =
                                     @ \cup {Eff("f", fi)}]
                            ELSE committed
            /\ log' = Append(log, Ev("func", fi, "db", out, connection))
            /\ UNCHANGED <<err, openHandles, pc>>
    /\ UNCHANGED <<pureVars, cfgVars, dbExists, connection, ops, op,
                   closeConn, srv, qi, defers, tx, pending, snap, reused>>

\* The successful end of DeploySchema.
DeployFinish ==
    /\ pc = "d_job"
    /\ qi > NumQueries
    /\ fi > NumFuncs
    /\ pc' = "ret"
    /\ IF closeConn
       THEN /\ openHandles' = CloseHandle(openHandles, connection)
            /\ committed' = CloseDb(committed, connection)
            /\ log' = Append(log, Ev("close", 0, "db", "", connection))
       ELSE UNCHANGED <<openHandles, committed, log>>
    /\ UNCHANGED <<pureVars, cfgVars, dbExists, connection, ops, op,
                   closeConn, srv, qi, fi, defers, tx, pending, err,
                   snap, reused>>

\* ------------------------------------------------------------------ UpdateSchemaWithOps
\* The transactional Update: entry up to the validation of the config.
UpdateSchemaWithOps(cc, co) ==
    /\ Idle
    /\ ops < MaxOps
    /\ ops' = ops + 1
    /\ NewFrame("UpdateTx", cc)
    /\ reused' = Connected
    /\ srv' = 0
    /\ snap' = {}
    /\ IF Connected
       THEN /\ UNCHANGED connVars
            /\ log' = ConnectedLog
       ELSE /\ DoConnect(co, openHandles, Fresh({}))
            /\ log' = ConnectLog(co, Fresh({}))
    /\ IF ~Connected /\ ConnectErr(co) # "nil"
       THEN /\ err' = ConnectErr(co)
            /\ pc' = "ret"
            /\ defers' = <<>>
       ELSE /\ defers' = IF cc THEN <<"c.Close">> ELSE <<>>
            /\ IF ~valid
               THEN /\ err' = "config"
                    /\ pc' = "ret"
               ELSE /\ err' = "nil"
                    /\ pc' = "u_begin"
    /\ UNCHANGED <<pureVars, cfgVars, dbVars>>

\* connection.Beginx() and the defer of tx.Rollback().
UpdateTxBegin(out) ==
    /\ pc = "u_begin"
    /\ IF out = "ok"
       THEN /\ tx' = "open"
            /\ defers' = Append(defers, "tx.Rollback")
            /\ snap' = committed[DbOf(connection)]
            /\ log' = Append(log, Ev("begin", 0, "db", out, connection))
            /\ pc' = "u_job"
            /\ UNCHANGED <<err, openHandles, committed>>
       ELSE /\ err' = "begin"
            /\ openHandles' = CloseHandle(openHandles, connection)
            /\ committed' = CloseDb(committed, connection)
            /\ log' = log \o <<Ev("begin", 0, "db", out, connection),
                               Ev("close", 0, "db", "", connection)>>
            /\ pc' = "ret"
            /\ UNCHANGED <<tx, defers, snap>>
    /\ UNCHANGED <<pureVars, cfgVars, dbExists, connection, ops, op,
                   closeConn, srv, qi, fi, pending, reused>>

\* One iteration of the UpdateQueries loop, on the transaction.
UpdateTxQuery(out) ==
    /\ pc = "u_job"
    /\ qi <= NumQueries
    /\ Possible(out, Eff("q", qi), committed[DbOf(connection)] \cup pending)
    /\ pending' = IF out = "ok" THEN pending \cup {Eff("q", qi)}
                  ELSE pending
    /\ IF QueryAborts(chain, out)
       THEN /\ err' = out
            /\ openHandles' = AbortClose(openHandles, connection)
            /\ committed' = CloseDb(committed, connection)
            /\ log' = Append(log \o QueryLog(chain, qi, out, "tx"),
                             Ev("close", 0, "db", "", connection))
            /\ pc' = "ret"
            /\ UNCHANGED qi
       ELSE /\ qi' = NextItem(qi)
            /\ log' = log \o QueryLog(chain, qi, out, "tx")
            /\ UNCHANGED <<err, openHandles, committed, pc>>
    /\ UNCHANGED <<pureVars, cfgVars, dbExists, connection, ops, op,
                   closeConn, srv, fi, defers, tx, snap, reused>>

\* One iteration of the UpdateFuncs loop, on the transaction.
UpdateTxFunc(out) ==
    /\ pc = "u_job"
    /\ qi > NumQueries
    /\ fi <= NumFuncs
    /\ IF FuncAborts(chain, out)
       THEN /\ err' = "func"
            /\ openHandles' = AbortClose(openHandles, connection)
            /\ committed' = CloseDb(committed, connection)
            /\ log' = log \o <<Ev("func", fi, "tx", out, connection),
                               Ev("close", 0, "db", "", connection)>>
            /\ pc' = "ret"
            /\ UNCHANGED <<fi, pending>>
       ELSE /\ fi' = NextItem(fi)
            /\ pending' = IF out = "ok" THEN pending \cup {Eff("f", fi)}
                          ELSE pending
            /\ log' = Append(log, Ev("func", fi, "tx", out, connection))
            /\ UNCHANGED <<err, openHandles, committed, pc>>
    /\ UNCHANGED <<pureVars, cfgVars, dbExists, connection, ops, op,
                   closeConn, srv, qi, defers, tx, snap, reused>>

\* A commit whose error is not looked at.
CommitFailsUnchecked(out) == FALSE

\* err = tx.Commit(); if err != nil.
CommitFails(out) == out # "ok"

\* tx.Commit() after both loops.  A commit that fails makes nothing visible
\* and ends the transaction: the deferred Rollback finds it done.
UpdateTxCommit(out) ==
    /\ pc = "u_job"
    /\ qi > NumQueries
    /\ fi > NumFuncs
    /\ pc' = "ret"
    /\ pending' = {}
    /\ tx' = IF out = "ok" THEN "committed" ELSE "failed"
    /\ IF CommitFails(out)
       THEN /\ err' = "commit"
            /\ openHandles' = CloseHandle(openHandles, connection)
            /\ committed' = CloseDb(committed, connection)
            /\ log' = log \o <<Ev("commit", 0, "tx", out, connection),
                               Ev("close", 0, "db", "", connection)>>
       ELSE /\ committed' = IF out = "ok"
                            THEN [committed EXCEPT ![DbOf(connection)] =
                                     @ \cup pending]
                            ELSE committed
            /\ log' = Append(log, Ev("commit", 0, "tx", out, connection))
            /\ UNCHANGED <<err, openHandles>>
    /\ UNCHANGED <<pureVars, cfgVars, dbExists, connection, ops, op,
                   closeConn, srv, qi, fi, defers, snap, reused>>

\* ------------------------------------------------------------------ UpdateSchema
\* The Update that runs on the Session itself: entry up to the defer.
UpdateSchema(cc, co) ==
    /\ Idle
    /\ ops < MaxOps
    /\ ops' = ops + 1
    /\ NewFrame("UpdateRaw", cc)
    /\ reused' = Connected
    /\ srv' = 0
    /\ IF Connected
       THEN /\ UNCHANGED connVars
            /\ log' = ConnectedLog
       ELSE /\ DoConnect(co, openHandles, Fresh({}))
            /\ log' = ConnectLog(co, Fresh({}))
    /\ IF ~Connected /\ ConnectErr(co) # "nil"
       THEN /\ err' = ConnectErr(co)
            /\ pc' = "ret"
            /\ defers' = <<>>
            /\ snap' = {}
       ELSE IF ~valid
       THEN /\ err' = "config"
            /\ pc' = "ret"
            /\ defers' = <<>>
            /\ snap' = {}
       ELSE /\ err' = "nil"
            /\ pc' = "r_job"
            /\ defers' = IF cc THEN <<"c.Close">> ELSE <<>>
            /\ snap' = committed[DbOf(connection')]
    /\ UNCHANGED <<pureVars, cfgVars, dbVars>>

\* One iteration of the UpdateQueries loop, on the Session.
UpdateQuery(out) ==
    /\ pc = "r_job"
    /\ qi <= NumQueries
    /\ Possible(out, Eff("q", qi), committed[DbOf(connection)])
    /\ IF out = "ok"
       THEN committed' = [committed EXCEPT ![DbOf(connection)] =
                             @ \cup {Eff("q", qi)}]
       ELSE IF QueryAborts(chain, out)
       THEN committed' = CloseDb(committed, connection)
       ELSE UNCHANGED committed
    /\ IF QueryAborts(chain, out)
       THEN /\ err' = out
            /\ openHandles' = AbortClose(openHandles, connection)
            /\ log' = Append(log \o QueryLog(chain, qi, out, "db"),
                             Ev("close", 0, "db", "", connection))
            /\ pc' = "ret"
            /\ UNCHANGED qi
       ELSE /\ qi' = NextItem(qi)
            /\ log' = log \o QueryLog(chain, qi, out, "db")
            /\ UNCHANGED <<err, openHandles, pc>>
    /\ UNCHANGED <<pureVars, cfgVars, dbExists, connection, ops, op,
                   closeConn, srv, fi, defers, tx, pending, snap, reused>>

\* One iteration of the UpdateFuncs loop, on the Session.
UpdateFunc(out) ==
    /\ pc = "r_job"
    /\ qi > NumQueries
    /\ fi <= NumFuncs
    /\ IF FuncAborts(chain, out)
       THEN /\ err' = "func"
            /\ openHandles' = AbortClose(openHandles, connection)
            /\ committed' = CloseDb(committed, connection)
            /\ log' = log \o <<Ev("func", fi, "db", out, connection),
                               Ev("close", 0, "db", "", connection)>>
            /\ pc' = "ret"
            /\ UNCHANGED fi
       ELSE /\ fi' = NextItem(fi)
            /\ committed' = IF out = "ok"
                            THEN [committed EXCEPT ![DbOf(connection)] =
                                     @ \cup {Eff("f", fi)}]
                            ELSE committed
            /\ log' = Append(log, Ev("func", fi, "db", out, connection))
            /\ UNCHANGED <<err, openHandles, pc>>
    /\ UNCHANGED <<pureVars, cfgVars, dbExists, connection, ops, op,
                   closeConn, srv, qi, defers, tx, pending, snap, reused>>

\* The successful end of UpdateSchema.
UpdateFinish ==
    /\ pc = "r_job"
    /\ qi > NumQueries
    /\ fi > NumFuncs
    /\ pc' = "ret"
    /\ IF closeConn
       THEN /\ openHandles' = CloseHandle(openHandles, connection)
            /\ committed' = CloseDb(committed, connection)
            /\ log' = Append(log, Ev("close", 0, "db", "", connection))
       ELSE UNCHANGED <<openHandles, committed, log>>
    /\ UNCHANGED <<pureVars, cfgVars, dbExists, connection, ops, op,
                   closeConn, srv, qi, fi, defers, tx, pending, err,
                   snap, reused>>

\* ------------------------------------------------------------------ Spec
Next ==
    \/ \E co \in ConnectOutcomes : Connect(co)
    \/ Close
    \/ MutateConfig
    \/ \E o \in Opts, oo \in {"ok", "openFail"} : DeploySchema(CloseConnectionOf(o), oo)
    \/ \E out \in {"ok", "fail"} : DeployCreateDatabase(out)
    \/ \E clo \in {"ok", "fail"}, co \in ConnectOutcomes : DeployConnect(clo, co)
    \/ \E out \in ExecOutcomes : DeployQuery(out)
    \/ \E out \in FuncOutcomes : DeployFunc(out)
    \/ DeployFinish
    \/ \E cc \in BOOLEAN, co \in ConnectOutcomes : UpdateSchemaWithOps(cc, co)
    \/ \E out \in {"ok", "fail"} : UpdateTxBegin(out)
    \/ \E out \in ExecOutcomes : UpdateTxQuery(out)
    \/ \E out \in FuncOutcomes : UpdateTxFunc(out)
    \/ \E out \in {"ok", "fail"} : UpdateTxCommit(out)
    \/ \E o \in Opts, co \in ConnectOutcomes : UpdateSchema(CloseConnectionOf(o), co)
    \/ \E out \in ExecOutcomes : UpdateQuery(out)
    \/ \E out \in FuncOutcomes : UpdateFunc(out)
    \/ UpdateFinish
    \/ RunDeferred

Spec == Init /\ [][Next]_vars

\* ------------------------------------------------------------------ classifier
\* Longest handler chain and longest translator chain evaluated.
MaxChain == 3

\* Handlers a chain may list: hDup and hAll as above, and hNone, which
\* claims nothing.
AllHandlers == {"hDup", "hAll", "hNone"}

\* Sequences over S of length at most n.
SeqsUpTo(S, n) == UNION {[1..k -> S] : k \in 0..n}

\* The connection and the call frame of a config on which no method has run.
SysRest ==
    /\ dbExists = FALSE
    /\ connection = 0
    /\ openHandles = {}
    /\ committed = [d \in DbIds |-> {}]
    /\ ops = 0
    /\ pc = "idle"
    /\ op = "none"
    /\ closeConn = FALSE
    /\ srv = 0
    /\ qi = 1
    /\ fi = 1
    /\ defers = <<>>
    /\ tx = "none"
    /\ pending = {}
    /\ err = "nil"
    /\ log = <<>>
    /\ snap = {}
    /\ reused = FALSE

\* The config at rest, while a function is evaluated on its own.
SysParked ==
    /\ inMemory = TRUE
    /\ valid = TRUE
    /\ chain = <<>>
    /\ SysRest

\* A call of the classifier with a chain and an execution error.
InitClassify ==
    /\ SysParked
    /\ hChain \in SeqsUpTo(AllHandlers, MaxChain)
    /\ hErr \in ExecOutcomes
    /\ hIdx = 0
    /\ hCalls = <<>>
    /\ hRet = FALSE
    /\ hpc = "entry"
    /\ TransIdle
    /\ HandIdle
    /\ MixIdle
    /\ RuleIdle
    /\ DiagIdle
    /\ LifeIdle

\* A handler that claims, and the loop goes on to the next handler.
ReturnsAtNever(ignoreError) == FALSE

\* if ignoreError { return }
ReturnsAt(ignoreError) == ignoreError

\* if err == nil { return true }
ClassifyEntry ==
    /\ hpc = "entry"
    /\ IF hErr = "ok"
       THEN hRet' = TRUE /\ hpc' = "returned" /\ UNCHANGED hIdx
       ELSE hIdx' = 1 /\ hpc' = "loop" /\ UNCHANGED hRet
    /\ UNCHANGED <<sysVars, transVars, handVars, mixVars, ruleVars, diagVars, lifeVars, hChain, hErr, hCalls>>

\* One iteration of the loop: ignoreError = eh(query, err).
ClassifyHandler ==
    /\ hpc = "loop"
    /\ hIdx <= Len(hChain)
    /\ hCalls' = Append(hCalls, hChain[hIdx])
    /\ IF ReturnsAt(Claims(hChain[hIdx], hErr))
       THEN hRet' = Claims(hChain[hIdx], hErr) /\ hpc' = "returned" /\ UNCHANGED hIdx
       ELSE hIdx' = hIdx + 1 /\ UNCHANGED <<hRet, hpc>>
    /\ UNCHANGED <<sysVars, transVars, handVars, mixVars, ruleVars, diagVars, lifeVars, hChain, hErr>>

\* return false, after the loop.
ClassifyExhausted ==
    /\ hpc = "loop"
    /\ hIdx > Len(hChain)
    /\ hRet' = FALSE
    /\ hpc' = "returned"
    /\ UNCHANGED <<sysVars, transVars, handVars, mixVars, ruleVars, diagVars, lifeVars, hChain, hErr, hIdx, hCalls>>

NextClassify ==
    \/ ClassifyEntry
    \/ ClassifyHandler
    \/ ClassifyExhausted

ClassifySpec == InitClassify /\ [][NextClassify]_vars

\* ------------------------------------------------------------------ handlers
\* A statement is represented by the keywords its text contains and an error
\* by the phrases its message contains, each in the letter case the handler
\* looks for.
Keywords == {"ADD COLUMN", "DROP COLUMN", "DROP FOREIGN KEY", "DROP TABLE",
             "UPDATE", "MODIFY COLUMN", "RENAME COLUMN", "RENAME TO"}

\* Most keywords in one statement.
MaxKeywords == 1

Queries == {q \in SUBSET Keywords : Cardinality(q) <= MaxKeywords}

\* Error messages of the databases: an unrelated one (a syntax error, a
\* disk error), SQLite's and MariaDB's re-run messages.
Messages == {
    {},
    {"duplicate column"},
    {"no such column"},
    {"no such table"},
    {"Unknown column"},
    {"Error 1091", "check that it exists"},
    {"Error 1051", "Unknown table"},
    {"Error 1146", "Table", "doesn't exist"},
    {"Table", "already exists"} }

IgnoreErrorDuplicateColumn(q, m) ==
    IF "ADD COLUMN" \in q /\ "duplicate column" \in m THEN TRUE ELSE FALSE

IgnoreErrorDropColumn(q, m) ==
    IF "DROP COLUMN" \notin q THEN FALSE
    ELSE IF "Error 1091" \in m /\ "check that it exists" \in m THEN TRUE
    ELSE IF "no such column" \in m THEN TRUE
    ELSE FALSE

IgnoreErrorDropForeignKey(q, m) ==
    IF "DROP FOREIGN KEY" \notin q THEN FALSE
    ELSE IF "Error 1091" \in m /\ "check that it exists" \in m THEN TRUE
    ELSE FALSE

IgnoreErrorDropTable(q, m) ==
    IF "DROP TABLE" \notin q THEN FALSE
    ELSE IF "Error 1051" \in m /\ "Unknown table" \in m THEN TRUE
    ELSE IF "no such table" \in m THEN TRUE
    ELSE FALSE

IgnoreErrorTableDoesNotExist(q, m) ==
    IF "Error 1146" \in m /\ "Table" \in m /\ "doesn't exist" \in m THEN TRUE
    ELSE IF "no such table" \in m THEN TRUE
    ELSE FALSE

IgnoreErrorColumnDoesNotExist(q, m) ==
    IF "UPDATE" \in q /\ "Unknown column" \in m THEN TRUE
    ELSE IF "UPDATE" \in q /\ "no such column" \in m THEN TRUE
    ELSE FALSE

IgnoreErrorSQLiteModify(q, m) ==
    IF "MODIFY COLUMN" \in q THEN TRUE ELSE FALSE

IgnoreErrorRenameDoesNotExist(q, m) ==
    IF "RENAME COLUMN" \in q /\ "Unknown column" \in m THEN TRUE
    ELSE IF "RENAME TO" \in q /\ "Table" \in m /\ "already exists" \in m THEN TRUE
    ELSE IF "RENAME COLUMN" \in q /\ "no such column" \in m THEN TRUE
    ELSE IF "RENAME TO" \in q /\ "no such table" \in m THEN TRUE
    ELSE FALSE

UFAlreadyExists(q, m) ==
    IF "already exists" \in m THEN TRUE ELSE FALSE

ProvidedHandlers ==
    {"IgnoreErrorDuplicateColumn", "IgnoreErrorDropColumn",
     "IgnoreErrorDropForeignKey", "IgnoreErrorDropTable",
     "IgnoreErrorTableDoesNotExist", "IgnoreErrorColumnDoesNotExist",
     "IgnoreErrorSQLiteModify", "IgnoreErrorRenameDoesNotExist",
     "UFAlreadyExists"}

\* The handler named h called with statement q and error m.
CallHandler(h, q, m) ==
    CASE h = "IgnoreErrorDuplicateColumn" -> IgnoreErrorDuplicateColumn(q, m)
      [] h = "IgnoreErrorDropColumn" -> IgnoreErrorDropColumn(q, m)
      [] h = "IgnoreErrorDropForeignKey" -> IgnoreErrorDropForeignKey(q, m)
      [] h = "IgnoreErrorDropTable" -> IgnoreErrorDropTable(q, m)
      [] h = "IgnoreErrorTableDoesNotExist" -> IgnoreErrorTableDoesNotExist(q, m)
      [] h = "IgnoreErrorColumnDoesNotExist" -> IgnoreErrorColumnDoesNotExist(q, m)
      [] h = "IgnoreErrorSQLiteModify" -> IgnoreErrorSQLiteModify(q, m)
      [] h = "IgnoreErrorRenameDoesNotExist" -> IgnoreErrorRenameDoesNotExist(q, m)
      [] h = "UFAlreadyExists" -> UFAlreadyExists(q, m)

InitHandler ==
    /\ SysParked
    /\ ClassIdle
    /\ TransIdle
    /\ MixIdle
    /\ RuleIdle
    /\ DiagIdle
    /\ LifeIdle
    /\ eName \in ProvidedHandlers
    /\ eQuery \in Queries
    /\ eMsg \in Messages
    /\ eRet = FALSE
    /\ epc = "call"

\* The handler runs and returns its verdict.
HandlerReturns ==
    /\ epc = "call"
    /\ eRet' = CallHandler(eName, eQuery, eMsg)
    /\ epc' = "returned"
    /\ UNCHANGED <<sysVars, classVars, transVars, mixVars, ruleVars, diagVars, lifeVars, eName, eQuery, eMsg>>

NextHandler == HandlerReturns

HandlerSpec == InitHandler /\ [][NextHandler]_vars

\* ------------------------------------------------------------------ UpdateSchemaWithOps and the package-level cfg
\* src/sqldb-updateSchema.go: the method has receiver c, and from the end of
\* the statement loop on it names cfg, the package-level *Config.  The
\* statements and the handler chain are c's; the callbacks and the closes
\* after them are cfg's.
MixedConfigs == {"nil", "c", "other"}
ConnStates == {"nil", "open", "closed"}

InitMixed ==
    /\ inMemory = TRUE
    /\ valid = TRUE
    /\ chain \in Chains
    /\ SysRest
    /\ ClassIdle
    /\ TransIdle
    /\ HandIdle
    /\ RuleIdle
    /\ DiagIdle
    /\ LifeIdle
    /\ mCfg \in MixedConfigs
    /\ mClose \in BOOLEAN
    /\ mConn \in ConnStates
    /\ mOther \in ConnStates
    /\ mDeferred = FALSE
    /\ mQi = 1
    /\ mFi = 1
    /\ mErr = "nil"
    /\ mLog = <<>>
    /\ mpc = "entry"

\* The config whose UpdateFuncs are run and whose Close is called after
\* the statement loop: the one cfg points to.
CallbackOwner(pkg) == IF pkg = "c" THEN "c" ELSE "other"

\* x.Close() on a connection in state st: a nil *sqlx.DB is dereferenced.
ClosePanics(st) == st = "nil"
Closed(st) == IF st = "nil" THEN "nil" ELSE "closed"

\* cfg.Close() after the statement loop, then the given position.
MixedCfgClose(next) ==
    IF CallbackOwner(mCfg) = "c"
    THEN /\ mConn' = Closed(mConn)
         /\ mpc' = IF ClosePanics(mConn) THEN "panic" ELSE next
         /\ UNCHANGED mOther
    ELSE /\ mOther' = Closed(mOther)
         /\ mpc' = IF ClosePanics(mOther) THEN "panic" ELSE next
         /\ UNCHANGED mConn

\* Entry: connect unless connected, validate, defer c.Close() if asked.
MixedEntry(co, v) ==
    /\ mpc = "entry"
    /\ IF mConn # "open" /\ co # "ok"
       THEN /\ mErr' = "connect"
            /\ mpc' = "ret"
            /\ UNCHANGED <<mConn, mDeferred>>
       ELSE IF ~v
       THEN /\ mErr' = "config"
            /\ mpc' = "ret"
            /\ UNCHANGED <<mConn, mDeferred>>
       ELSE /\ mConn' = "open"
            /\ mDeferred' = mClose
            /\ mpc' = "queries"
            /\ UNCHANGED mErr
    /\ UNCHANGED <<sysVars, classVars, transVars, handVars, ruleVars, diagVars, lifeVars, mCfg, mClose,
                   mOther, mQi, mFi, mLog>>

\* One iteration of the loop over c.UpdateQueries.
MixedQuery(out) ==
    /\ mpc = "queries"
    /\ mQi <= NumQueries
    /\ mLog' = Append(mLog, Ev("exec", mQi, "c", out, 0))
    /\ IF QueryAborts(chain, out)
       THEN /\ mErr' = out
            /\ mConn' = "closed"
            /\ mpc' = "ret"
            /\ UNCHANGED mQi
       ELSE /\ mQi' = NextItem(mQi)
            /\ UNCHANGED <<mErr, mConn, mpc>>
    /\ UNCHANGED <<sysVars, classVars, transVars, handVars, ruleVars, diagVars, lifeVars, mCfg, mClose,
                   mOther, mDeferred, mFi>>

\* cfg.infoPrintln after the loop reads cfg.LoggingLevel.
MixedQueriesDone ==
    /\ mpc = "queries"
    /\ mQi > NumQueries
    /\ mpc' = IF mCfg = "nil" THEN "panic" ELSE "funcs"
    /\ UNCHANGED <<sysVars, classVars, transVars, handVars, ruleVars, diagVars, lifeVars, mCfg, mClose,
                   mConn, mOther, mDeferred, mQi, mFi, mErr, mLog>>

\* One iteration of the loop over cfg.UpdateFuncs, run on c's connection.
MixedFunc(out) ==
    /\ mpc = "funcs"
    /\ mFi <= NumFuncs
    /\ mLog' = Append(mLog, Ev("func", mFi, CallbackOwner(mCfg), out, 0))
    /\ IF FuncAborts(chain, out)
       THEN /\ mErr' = "func"
            /\ MixedCfgClose("ret")
            /\ UNCHANGED mFi
       ELSE /\ mFi' = NextItem(mFi)
            /\ UNCHANGED <<mErr, mConn, mOther, mpc>>
    /\ UNCHANGED <<sysVars, classVars, transVars, handVars, ruleVars, diagVars, lifeVars, mCfg, mClose,
                   mDeferred, mQi>>

\* The end of the function: cfg.Close() if the connection is to be closed.
MixedFinish ==
    /\ mpc = "funcs"
    /\ mFi > NumFuncs
    /\ IF mClose
       THEN MixedCfgClose("ret")
       ELSE /\ mpc' = "ret"
            /\ UNCHANGED <<mConn, mOther>>
    /\ UNCHANGED <<sysVars, classVars, transVars, handVars, ruleVars, diagVars, lifeVars, mCfg, mClose,
                   mDeferred, mQi, mFi, mErr, mLog>>

\* The function returns or unwinds: the deferred c.Close() runs.
MixedReturn ==
    /\ mpc \in {"ret", "panic"}
    /\ mConn' = IF mDeferred THEN Closed(mConn) ELSE mConn
    /\ mDeferred' = FALSE
    /\ mpc' = IF mpc = "ret" THEN "done" ELSE "panicked"
    /\ UNCHANGED <<sysVars, classVars, transVars, handVars, ruleVars, diagVars, lifeVars, mCfg, mClose,
                   mOther, mQi, mFi, mErr, mLog>>

NextMixed ==
    \/ \E co \in {"ok", "fail"}, v \in BOOLEAN : MixedEntry(co, v)
    \/ \E out \in ExecOutcomes : MixedQuery(out)
    \/ MixedQueriesDone
    \/ \E out \in FuncOutcomes : MixedFunc(out)
    \/ MixedFinish
    \/ MixedReturn

MixedSpec == InitMixed /\ [][NextMixed]_vars

\* ------------------------------------------------------------------ translator runners
\* A statement is the sequence of its words.  A Translator is a func(string)
\* string; the chain of a config is drawn from two of the package's own,
\* which rewrite whole words.
MaxStmt == 3
MaxRules == 2

Words == {"DEFAULT", "UTC_TIMESTAMP", "DATETIME"}
Statements == SeqsUpTo(Words, MaxStmt)

Translators == {"TFToSQLiteReformatDefaultTimestamp", "TFToSQLiteReformatDatetime"}

\* strings.Replace(in, "DEFAULT UTC_TIMESTAMP", "DEFAULT CURRENT_TIMESTAMP", -1)
TFToSQLiteReformatDefaultTimestamp(in) ==
    [k \in 1..Len(in) |->
        IF in[k] = "UTC_TIMESTAMP" /\ k > 1 /\ in[k - 1] = "DEFAULT"
        THEN "CURRENT_TIMESTAMP" ELSE in[k]]

\* strings.Replace(in, "DATETIME", "TEXT", -1)
TFToSQLiteReformatDatetime(in) ==
    [k \in 1..Len(in) |-> IF in[k] = "DATETIME" THEN "TEXT" ELSE in[k]]

\* t(s) for the translator named t.
ApplyTranslator(t, s) ==
    CASE t = "TFToSQLiteReformatDefaultTimestamp" -> TFToSQLiteReformatDefaultTimestamp(s)
      [] t = "TFToSQLiteReformatDatetime" -> TFToSQLiteReformatDatetime(s)

\* The runners: RunDeployQueryTranslators of src/schema-deploy.go and
\* RunUpdateQueryTranslators of src/sqldb-updateSchema.go.
Runners == {"RunDeployQueryTranslators", "RunUpdateQueryTranslators"}

\* A runner that keeps a buffer between its calls.
RunnerStartStale(fn, in) == tFirst \o in

\* The named result out when the loop is entered: "out = in" in the first
\* runner, the zero value "" in the second.
RunnerStart(fn, in) == IF fn = "RunDeployQueryTranslators" THEN in ELSE <<>>

\* What the loop body hands to the translator: out in the first runner
\* (out = t(out)), in in the second (out = t(in)).
RunnerArg(fn, in, out) == IF fn = "RunDeployQueryTranslators" THEN out ELSE in

InitTranslate ==
    /\ SysParked
    /\ ClassIdle
    /\ HandIdle
    /\ MixIdle
    /\ RuleIdle
    /\ DiagIdle
    /\ LifeIdle
    /\ tFn \in Runners
    /\ tChain \in SeqsUpTo(Translators, MaxRules)
    /\ tIn \in Statements
    /\ tOut = <<>>
    /\ tIdx = 0
    /\ tpc = "entry"
    /\ tCall = 1
    /\ tFirst = <<>>

TranslateEntry ==
    /\ tpc = "entry"
    /\ tOut' = RunnerStart(tFn, tIn)
    /\ tIdx' = 1
    /\ tpc' = "loop"
    /\ UNCHANGED <<sysVars, classVars, handVars, mixVars, ruleVars, diagVars, lifeVars, tFn, tChain, tIn,
                   tCall, tFirst>>

\* One iteration of the range loop over the chain.
TranslateStep ==
    /\ tpc = "loop"
    /\ tIdx <= Len(tChain)
    /\ tOut' = ApplyTranslator(tChain[tIdx], RunnerArg(tFn, tIn, tOut))
    /\ tIdx' = tIdx + 1
    /\ UNCHANGED <<sysVars, classVars, handVars, mixVars, ruleVars, diagVars, lifeVars, tFn, tChain, tIn,
                   tpc, tCall, tFirst>>

\* return out
TranslateReturn ==
    /\ tpc = "loop"
    /\ tIdx > Len(tChain)
    /\ tpc' = "returned"
    /\ UNCHANGED <<sysVars, classVars, handVars, mixVars, ruleVars, diagVars, lifeVars, tFn, tChain, tIn,
                   tOut, tIdx, tCall, tFirst>>

\* The caller keeps the result and calls the runner again on the same
\* statement, with the same chain: the named result out of the new call is a
\* new variable, the zero value "".
TranslateAgain ==
    /\ tpc = "returned"
    /\ tCall = 1
    /\ tFirst' = tOut
    /\ tCall' = 2
    /\ tOut' = <<>>
    /\ tIdx' = 0
    /\ tpc' = "entry"
    /\ UNCHANGED <<sysVars, classVars, handVars, mixVars, ruleVars, diagVars, lifeVars, tFn,
                   tChain, tIn>>

NextTranslate ==
    \/ TranslateEntry
    \/ TranslateStep
    \/ TranslateReturn
    \/ TranslateAgain

TranslateSpec == InitTranslate /\ [][NextTranslate]_vars

\* ------------------------------------------------------------------ strings
\* A string is the sequence of its tokens: words, numbers, blanks (" ", "\n")
\* and punctuation marks.  Indices are Go's: the first token is at 0 and a
\* search that finds nothing returns -1.

\* s[lo:hi] is defined (otherwise: panic, slice bounds out of range).
SliceOk(s, lo, hi) == 0 <= lo /\ lo <= hi /\ hi <= Len(s)

\* s[lo:hi]
Slice(s, lo, hi) == SubSeq(s, lo + 1, hi)

\* pat occurs in s at index i.
OccursAt(s, pat, i) ==
    /\ i >= 0
    /\ i + Len(pat) <= Len(s)
    /\ Slice(s, i, i + Len(pat)) = pat

\* strings.Index(s, pat)
Index(s, pat) ==
    IF \E i \in 0..Len(s) : OccursAt(s, pat, i)
    THEN CHOOSE i \in 0..Len(s) :
            /\ OccursAt(s, pat, i)
            /\ \A j \in 0..(i - 1) : ~OccursAt(s, pat, j)
    ELSE -1

\* strings.LastIndex(s, pat)
LastIndex(s, pat) ==
    IF \E i \in 0..Len(s) : OccursAt(s, pat, i)
    THEN CHOOSE i \in 0..Len(s) :
            /\ OccursAt(s, pat, i)
            /\ \A j \in (i + 1)..Len(s) : ~OccursAt(s, pat, j)
    ELSE -1

\* strings.Contains(s, pat)
Contains(s, pat) == Index(s, pat) # -1

\* strings.Replace(s, old, new, n) for n = 1 and n = -1 (all), the two the
\* package uses.  An empty old matches at the start of s.
RECURSIVE Replace(_, _, _, _)
Replace(s, old, new, n) ==
    IF n = 0 \/ Index(s, old) = -1 THEN s
    ELSE IF old = <<>> THEN new \o s
    ELSE LET i == Index(s, old)
         IN  Slice(s, 0, i) \o new \o
             Replace(Slice(s, i + Len(old), Len(s)), old, new,
                     IF n = 1 THEN 0 ELSE n)

\* strings.ReplaceAll(s, old, new)
ReplaceAll(s, old, new) == Replace(s, old, new, -1)

\* ------------------------------------------------------------------ translation rules
\* The result of a call: the string returned, or a panic.
Returned(s) == [panic |-> FALSE, out |-> s]
Panicked == [panic |-> TRUE, out |-> <<>>]

Comma == <<",">>
PrimaryKeyClause == <<"PRIMARY", " ", "KEY", "(", "ID", ")">>
IDColumnMySQL == <<"ID", " ", "INT", " ", "NOT", " ", "NULL", " ", "AUTO_INCREMENT">>
IDColumnInteger == <<"ID", " ", "INTEGER", " ", "NOT", " ", "NULL", " ", "AUTO_INCREMENT">>
IDColumnSQLite == <<"ID", " ", "INTEGER", " ", "PRIMARY", " ", "KEY", " ",
                    "AUTOINCREMENT", " ", "NOT", " ", "NULL">>
DefaultUTC == <<"DEFAULT", " ", "UTC_TIMESTAMP">>
DefaultCurrent == <<"DEFAULT", " ", "CURRENT_TIMESTAMP">>

\* TFMySQLToSQLiteReformatID
TFMySQLToSQLiteReformatID(in) ==
    Returned(Replace(in, IDColumnMySQL, IDColumnSQLite, 1))

\* A body that removes the first comma of the statement, not the last one
\* before the clause.
RemovePrimaryKeyFirstComma(in, out0) ==
    LET primaryKeyIndex == Index(in, PrimaryKeyClause)
    IN  IF ~SliceOk(out0, 0, primaryKeyIndex) THEN Panicked
        ELSE LET firstCommaIndex == Index(Slice(out0, 0, primaryKeyIndex), Comma)
             IN  IF ~SliceOk(out0, 0, firstCommaIndex) THEN Panicked
                 ELSE Returned(Replace(Slice(out0, 0, firstCommaIndex) \o
                                       Slice(out0, firstCommaIndex + 1, Len(out0)),
                                       PrimaryKeyClause, <<>>, 1))

\* The body shared by the primary-key rules, from the slice of out at the
\* clause's index on; out0 is the value out has at that point.
RemovePrimaryKeyBody(in, out0) ==
    LET primaryKeyIndex == Index(in, PrimaryKeyClause)
    IN  IF ~SliceOk(out0, 0, primaryKeyIndex) THEN Panicked
        ELSE LET choppedQ == Slice(out0, 0, primaryKeyIndex)
                 lastCommaIndex == LastIndex(choppedQ, Comma)
             IN  IF ~SliceOk(out0, 0, lastCommaIndex) THEN Panicked
                 ELSE Returned(Replace(Slice(out0, 0, lastCommaIndex) \o
                                       Slice(out0, lastCommaIndex + 1, Len(out0)),
                                       PrimaryKeyClause, <<>>, 1))

\* TFMySQLToSQLiteRemovePrimaryKeyDefinition of
\* src/sqldb-translateCreateTable.go: out = in, return if the clause is absent.
TFMySQLToSQLiteRemovePrimaryKeyDefinition(in) ==
    IF Index(in, PrimaryKeyClause) = -1 THEN Returned(in)
    ELSE RemovePrimaryKeyBody(in, in)

\* TFToSQLiteRemovePrimaryKeyDefinition of src/unnamed/part_014: out = in,
\* no test of the index.
TFToSQLiteRemovePrimaryKeyDefinition14(in) == RemovePrimaryKeyBody(in, in)

\* TFToSQLiteRemovePrimaryKeyDefinition of src/translate.go and src/todo.go:
\* out is still "" when it is sliced.
TFToSQLiteRemovePrimaryKeyDefinition(in) == RemovePrimaryKeyBody(in, <<>>)

\* TFMySQLToSQLiteReformatDefaultTimestamp
TFMySQLToSQLiteReformatDefaultTimestamp(in) ==
    Returned(Replace(in, DefaultUTC, DefaultCurrent, -1))

\* TFMySQLToSQLiteReformatDatetime
TFMySQLToSQLiteReformatDatetime(in) ==
    Returned(Replace(in, <<"DATETIME">>, <<"TEXT">>, -1))

\* TFMySQLToSQLiteBLOB
TFMySQLToSQLiteBLOB(in) ==
    Returned(Replace(Replace(Replace(in, <<"TINYBLOB">>, <<"BLOB">>, 1),
                             <<"MEDIUMBLOB">>, <<"BLOB">>, 1),
                     <<"LONGBLOB">>, <<"BLOB">>, 1))

\* The rules that are one function each.
SimpleRules ==
    {"TFMySQLToSQLiteReformatID", "TFMySQLToSQLiteRemovePrimaryKeyDefinition",
     "TFToSQLiteRemovePrimaryKeyDefinition14",
     "TFToSQLiteRemovePrimaryKeyDefinition",
     "TFMySQLToSQLiteReformatDefaultTimestamp",
     "TFMySQLToSQLiteReformatDatetime", "TFMySQLToSQLiteBLOB"}

Rules == SimpleRules \cup {"TranslateMariaDBToSQLite"}

\* r(in) for the simple rule named r.
ApplyRule(r, in) ==
    CASE r = "TFMySQLToSQLiteReformatID" -> TFMySQLToSQLiteReformatID(in)
      [] r = "TFMySQLToSQLiteRemovePrimaryKeyDefinition" ->
            TFMySQLToSQLiteRemovePrimaryKeyDefinition(in)
      [] r = "TFToSQLiteRemovePrimaryKeyDefinition14" ->
            TFToSQLiteRemovePrimaryKeyDefinition14(in)
      [] r = "TFToSQLiteRemovePrimaryKeyDefinition" ->
            TFToSQLiteRemovePrimaryKeyDefinition(in)
      [] r = "TFMySQLToSQLiteReformatDefaultTimestamp" ->
            TFMySQLToSQLiteReformatDefaultTimestamp(in)
      [] r = "TFMySQLToSQLiteReformatDatetime" -> TFMySQLToSQLiteReformatDatetime(in)
      [] r = "TFMySQLToSQLiteBLOB" -> TFMySQLToSQLiteBLOB(in)

\* ------------------------------------------------------------------ TranslateMariaDBToSQLite
\* " INT " to " INTEGER " everywhere, then the ID column once.
MariaDBReformatID(query) ==
    Replace(ReplaceAll(query, <<" ", "INT", " ">>, <<" ", "INTEGER", " ">>),
            IDColumnInteger, IDColumnSQLite, 1)

\* The primary-key block: entered if the clause is in the query.
MariaDBRemovePrimaryKey(query) ==
    IF Contains(query, PrimaryKeyClause)
    THEN RemovePrimaryKeyBody(query, query)
    ELSE Returned(query)

\* UTC_TIMESTAMP, DATETIME and the three BLOB widths.
MariaDBKeywords(query) ==
    ReplaceAll(ReplaceAll(ReplaceAll(ReplaceAll(ReplaceAll(query,
        DefaultUTC, DefaultCurrent),
        <<"DATETIME">>, <<"TEXT">>),
        <<"TINYBLOB">>, <<"BLOB">>),
        <<"MEDIUMBLOB">>, <<"BLOB">>),
        <<"LONGBLOB">>, <<"BLOB">>)

\* The body of the loops over VARCHAR and DECIMAL: the text from the keyword
\* to the first ")" after it is replaced by swapWith, once.
EraseSpan(query, searchFor, swapWith) ==
    LET start == Index(query, <<searchFor>>)
        end == Index(Slice(query, start, Len(query)), <<")">>) + 1 + start
        definition == Slice(query, start, end)
    IN  Replace(query, definition, <<swapWith>>, 1)

\* A loop that is left after its first iteration.
LoopAgainOnce(query, searchFor, iter) ==
    Contains(query, <<searchFor>>) /\ iter = 0

\* The loop condition: "if !strings.Contains(query, searchFor) { break }".
LoopAgain(query, searchFor, iter) == Contains(query, <<searchFor>>)

\* BOOLEAN, BOOL, DATE and TIME columns.
MariaDBTypes(query) ==
    ReplaceAll(ReplaceAll(ReplaceAll(ReplaceAll(query,
        <<" ", "BOOLEAN">>, <<" ", "INTEGER">>),
        <<" ", "BOOL">>, <<" ", "INTEGER">>),
        <<" ", "DATE">>, <<" ", "TEXT">>),
        <<" ", "TIME">>, <<" ", "TEXT">>)

\* ------------------------------------------------------------------ rule calls
\* Statements are put together from at most MaxSegs pieces; a loop is
\* followed for at most MaxIter iterations.
MaxSegs == 3
MaxIter == 4

VarcharDef == <<"VARCHAR", "(", "50", ")">>
DecimalDef == <<"DECIMAL", "(", "10", ",", "4", ")">>

Segments ==
    {Comma, <<"x">>, PrimaryKeyClause, VarcharDef, <<"VARCHAR">>, DecimalDef,
     <<"DECIMAL">>, <<")">>}

RECURSIVE Flatten(_)
Flatten(ss) == IF ss = <<>> THEN <<>> ELSE Head(ss) \o Flatten(Tail(ss))

\* The CREATE TABLE statement of the package's documentation.
CreateUsers ==
    <<"CREATE", " ", "TABLE", " ", "users", " ", "(", "ID", " ", "INT", " ",
      "NOT", " ", "NULL", " ", "AUTO_INCREMENT", ",", " ", "Name", " ",
      "VARCHAR", "(", "50", ")", " ", "NOT", " ", "NULL", ",", " ",
      "Created", " ", "DATETIME", " ", "DEFAULT", " ", "UTC_TIMESTAMP", ",",
      " ", "PRIMARY", " ", "KEY", "(", "ID", ")", ")">>

\* Two VARCHAR and two DECIMAL columns.
WideColumns ==
    <<"a", " ", "VARCHAR", "(", "255", ")", ",", " ", "b", " ", "DECIMAL",
      "(", "10", ",", "4", ")", ",", " ", "c", " ", "VARCHAR", "(", "255",
      ")", ",", " ", "d", " ", "DECIMAL", "(", "10", ",", "4", ")">>

RuleInputs ==
    {Flatten(ss) : ss \in SeqsUpTo(Segments, MaxSegs)}
        \cup {CreateUsers, WideColumns}

InitRule ==
    /\ SysParked
    /\ ClassIdle
    /\ TransIdle
    /\ HandIdle
    /\ MixIdle
    /\ DiagIdle
    /\ LifeIdle
    /\ rFn \in Rules
    /\ rIn \in RuleInputs
    /\ rQ = <<>>
    /\ rPanic = FALSE
    /\ rIter = 0
    /\ rpc = "call"

\* A simple rule runs to its return or to its panic.
RuleCall ==
    /\ rpc = "call"
    /\ rFn \in SimpleRules
    /\ rQ' = ApplyRule(rFn, rIn).out
    /\ rPanic' = ApplyRule(rFn, rIn).panic
    /\ rpc' = IF ApplyRule(rFn, rIn).panic THEN "panicked" ELSE "returned"
    /\ UNCHANGED <<sysVars, classVars, transVars, handVars, mixVars, diagVars, lifeVars,
                   rFn,
                   rIn,
                   rIter>>

TranslateReformatID ==
    /\ rpc = "call"
    /\ rFn = "TranslateMariaDBToSQLite"
    /\ rQ' = MariaDBReformatID(rIn)
    /\ rpc' = "primarykey"
    /\ UNCHANGED <<sysVars, classVars, transVars, handVars, mixVars, diagVars, lifeVars,
                   rFn,
                   rIn,
                   rPanic, rIter>>

TranslateRemovePrimaryKey ==
    /\ rpc = "primarykey"
    /\ rQ' = MariaDBRemovePrimaryKey(rQ).out
    /\ rPanic' = MariaDBRemovePrimaryKey(rQ).panic
    /\ rpc' = IF MariaDBRemovePrimaryKey(rQ).panic THEN "panicked" ELSE "keywords"
    /\ UNCHANGED <<sysVars, classVars, transVars, handVars, mixVars, diagVars, lifeVars,
                   rFn,
                   rIn,
                   rIter>>

TranslateKeywords ==
    /\ rpc = "keywords"
    /\ rQ' = MariaDBKeywords(rQ)
    /\ rpc' = "varchar"
    /\ UNCHANGED <<sysVars, classVars, transVars, handVars, mixVars, diagVars, lifeVars,
                   rFn,
                   rIn,
                   rPanic, rIter>>

\* The loop at position at over searchFor: one test of its condition and,
\* if it holds, one run of its body; next is the position after the loop.
TranslateLoop(at, searchFor, swapWith, next) ==
    /\ rpc = at
    /\ rIter < MaxIter
    /\ IF LoopAgain(rQ, searchFor, rIter)
       THEN /\ rQ' = EraseSpan(rQ, searchFor, swapWith)
            /\ rIter' = rIter + 1
            /\ UNCHANGED rpc
       ELSE /\ rpc' = next
            /\ rIter' = 0
            /\ UNCHANGED rQ
    /\ UNCHANGED <<sysVars, classVars, transVars, handVars, mixVars, diagVars, lifeVars,
                   rFn,
                   rIn,
                   rPanic>>

TranslateVarchar == TranslateLoop("varchar", "VARCHAR", "TEXT", "decimal")

TranslateDecimal == TranslateLoop("decimal", "DECIMAL", "REAL", "types")

TranslateTypes ==
    /\ rpc = "types"
    /\ rQ' = MariaDBTypes(rQ)
    /\ rpc' = "returned"
    /\ UNCHANGED <<sysVars, classVars, transVars, handVars, mixVars, diagVars, lifeVars,
                   rFn,
                   rIn,
                   rPanic, rIter>>

NextRule ==
    \/ RuleCall
    \/ TranslateReformatID
    \/ TranslateRemovePrimaryKey
    \/ TranslateKeywords
    \/ TranslateVarchar
    \/ TranslateDecimal
    \/ TranslateTypes

RuleSpec == InitRule /\ [][NextRule]_vars

\* An erasure loop that can take a step takes it: nothing but the code of the
\* loop decides whether the loop is left.
RuleFairSpec == RuleSpec /\ WF_vars(TranslateVarchar) /\ WF_vars(TranslateDecimal)

\* ------------------------------------------------------------------ diagnostics of the statement loops
\* The body of the loop over the statements, in each orchestrator: the
\* diagnostic line is built and handed to the logger, then the statement is
\* executed.  The statement is known by what the code inspects: its length in
\* bytes, whether it spans lines, whether it contains "CREATE TABLE", and where
\* its first "(" is.
MaxQueryLen == 72

LogLevelNone == 0
LogLevelError == 1
LogLevelInfo == 2
LogLevelDebug == 3
LogLevels == LogLevelNone .. LogLevelDebug

\* len("CREATE TABLE")
CreateTableLen == 12

DiagOrchestrators == {"UpdateSchema", "DeploySchemaWithOps", "DeploySchema"}

\* q[:hi] of a string of n bytes is in range.
SliceBytesOk(n, hi) == 0 <= hi /\ hi <= n

InitDiag ==
    /\ SysParked
    /\ ClassIdle
    /\ TransIdle
    /\ HandIdle
    /\ MixIdle
    /\ RuleIdle
    /\ LifeIdle
    /\ dFn \in DiagOrchestrators
    /\ dLen \in 0 .. MaxQueryLen
    /\ dNewline \in {b \in BOOLEAN : b => dLen >= 3}
    /\ dCreate \in {b \in BOOLEAN : b => dLen >= CreateTableLen}
    /\ dParen \in {i \in -1 .. (dLen - 1) : (dCreate /\ i # -1) => dLen > CreateTableLen}
    /\ dLevel \in LogLevels
    /\ dLines = 0
    /\ dRan = FALSE
    /\ dpc = "log"

\* infoLn, debugLn, debugPrintln: the line is written when the level allows
\* it.  The argument has been evaluated by then.
Println(threshold) ==
    dLines' = IF dLevel >= threshold THEN dLines + 1 ELSE dLines

\* The argument of the logging call is a slice q[:hi] of the statement.
LogSlice(hi, threshold) ==
    IF SliceBytesOk(dLen, hi)
    THEN /\ Println(threshold)
         /\ dpc' = "exec"
    ELSE /\ dpc' = "panicked"
         /\ UNCHANGED dLines

\* The argument of the logging call is the statement, or its first line.
LogWhole(threshold) ==
    /\ Println(threshold)
    /\ dpc' = "exec"

\* UpdateSchema: if len(q) > 50 { c.infoLn("UpdateQuery:", q[:70]+"...") }
DiagUpdateSchema ==
    /\ dpc = "log"
    /\ dFn = "UpdateSchema"
    /\ IF dLen > 50 THEN LogSlice(70, LogLevelInfo) ELSE LogWhole(LogLevelInfo)
    /\ UNCHANGED <<sysVars, classVars, transVars, handVars, mixVars, ruleVars, lifeVars,
                   dFn,
                   dLen, dNewline, dCreate, dParen, dLevel, dRan>>

\* DeploySchemaWithOps: a CREATE TABLE statement is logged up to its "(".
DiagDeploySchemaWithOps ==
    /\ dpc = "log"
    /\ dFn = "DeploySchemaWithOps"
    /\ IF dCreate THEN LogSlice(dParen, LogLevelDebug) ELSE LogWhole(LogLevelDebug)
    /\ UNCHANGED <<sysVars, classVars, transVars, handVars, mixVars, ruleVars, lifeVars,
                   dFn,
                   dLen, dNewline, dCreate, dParen, dLevel, dRan>>

\* DeploySchema: the first line of a statement of several lines, else the
\* first 70 bytes of a statement longer than that, else the statement.
DiagDeploySchema ==
    /\ dpc = "log"
    /\ dFn = "DeploySchema"
    /\ IF dNewline
       THEN LogWhole(LogLevelInfo)
       ELSE IF dLen > 70 THEN LogSlice(70, LogLevelInfo) ELSE LogWhole(LogLevelInfo)
    /\ UNCHANGED <<sysVars, classVars, transVars, handVars, mixVars, ruleVars, lifeVars,
                   dFn,
                   dLen, dNewline, dCreate, dParen, dLevel, dRan>>

\* The statement is executed.
DiagExec ==
    /\ dpc = "exec"
    /\ dRan' = TRUE
    /\ dpc' = "done"
    /\ UNCHANGED <<sysVars, classVars, transVars, handVars, mixVars, ruleVars, lifeVars,
                   dFn,
                   dLen, dNewline, dCreate, dParen, dLevel, dLines>>

NextDiag ==
    \/ DiagUpdateSchema
    \/ DiagDeploySchemaWithOps
    \/ DiagDeploySchema
    \/ DiagExec

DiagSpec == InitDiag /\ [][NextDiag]_vars

\* ------------------------------------------------------------------ the connection over Connect and Close calls
\* A caller that only connects and closes, as the tests of Connect, Close and
\* Connected do, for up to MaxCalls calls.  The database of a persistent
\* config may exist beforehand.
MaxCalls == 4

InitLife ==
    /\ ClassIdle
    /\ TransIdle
    /\ HandIdle
    /\ MixIdle
    /\ RuleIdle
    /\ DiagIdle
    /\ calls = <<>>
    /\ inMemory \in BOOLEAN
    /\ valid \in BOOLEAN
    /\ chain = <<>>
    /\ dbExists \in BOOLEAN
    /\ connection = 0
    /\ openHandles = {}
    /\ committed = [d \in DbIds |-> {}]
    /\ ops = 0
    /\ pc = "idle"
    /\ op = "none"
    /\ closeConn = FALSE
    /\ srv = 0
    /\ qi = 1
    /\ fi = 1
    /\ defers = <<>>
    /\ tx = "none"
    /\ pending = {}
    /\ err = "nil"
    /\ log = <<>>
    /\ snap = {}
    /\ reused = FALSE

\* What the caller can observe of one call.
CallRecord(name) ==
    [call |-> name, err |-> err', panicked |-> pc' = "panic",
     conn0 |-> connection, open0 |-> openHandles,
     conn |-> connection', open |-> openHandles']

LifeConnect(co) ==
    /\ ops < MaxCalls
    /\ ConnectCall(co)
    /\ calls' = Append(calls, CallRecord("Connect"))
    /\ UNCHANGED <<classVars, transVars, handVars, mixVars, ruleVars, diagVars>>

LifeClose ==
    /\ ops < MaxCalls
    /\ CloseCall
    /\ calls' = Append(calls, CallRecord("Close"))
    /\ UNCHANGED <<classVars, transVars, handVars, mixVars, ruleVars, diagVars>>

NextLife ==
    \/ \E co \in ConnectOutcomes : LifeConnect(co)
    \/ LifeClose

LifeSpec == InitLife /\ [][NextLife]_vars

\* ------------------------------------------------------------------ properties
Orchestrators == {"Deploy", "UpdateTx", "UpdateRaw"}
Updates == {"UpdateTx", "UpdateRaw"}

IsItem(e) == e.ev \in {"exec", "func"}

\* The statement and callback executions of the call, in order.
ItemEvents(l) == SelectSeq(l, IsItem)

\* Some handler of the config's chain claims the error e.
ErrClaimed(e) == \E k \in 1..Len(chain) : Claims(chain[k], e)

\* The schema changes made by the executions in l.
AppliedBy(l) ==
    {Eff(IF l[k].ev = "exec" THEN "q" ELSE "f", l[k].n) :
        k \in {j \in 1..Len(l) : IsItem(l[j]) /\ l[j].res = "ok"}}

\* Handles the call opened, and the Session it adopted.
OpenedByCall == {log[k].h : k \in {j \in 1..Len(log) : log[j].ev = "open"}}
UsedByCall == OpenedByCall \cup (IF reused THEN {connection} ELSE {})

\* The database the call's Session is attached to can still be looked at:
\* an in-memory database is gone once its handle is closed.
SessionDbAlive == ~inMemory \/ connection \in openHandles

\* C1: once an Update call has returned, the schema is either what it was
\* before the call, or the result of applying the whole Job; never the
\* result of applying only some of the Job's statements and callbacks.
C1_UpdateAtomic ==
    (pc = "done" /\ op \in Updates /\ ItemEvents(log) # <<>> /\ SessionDbAlive)
        => \/ committed[DbOf(connection)] = snap
           \/ /\ err = "nil"
              /\ Len(ItemEvents(log)) = NumQueries + NumFuncs
              /\ committed[DbOf(connection)] = snap \cup AppliedBy(log)

\* C2: a commit is issued only after every statement of the Job was executed
\* with success or with a claimed error, and every callback was run with
\* success; never after an unclaimed statement error or a callback failure.
C2_CommitOnlyAfterAllSucceeded ==
    \A k \in 1..Len(log) :
        log[k].ev = "commit" =>
            LET items == ItemEvents(SubSeq(log, 1, k - 1))
            IN  /\ \A j \in 1..NumQueries :
                      \E i \in 1..Len(items) :
                          items[i].ev = "exec" /\ items[i].n = j
                /\ \A j \in 1..NumFuncs :
                      \E i \in 1..Len(items) :
                          items[i].ev = "func" /\ items[i].n = j
                /\ \A i \in 1..Len(items) :
                      \/ items[i].res = "ok"
                      \/ items[i].ev = "exec" /\ ErrClaimed(items[i].res)

\* A commit that followed a statement error claimed by a handler.
C2_Witness ==
    /\ pc = "done"
    /\ op = "UpdateTx"
    /\ tx = "committed"
    /\ err = "nil"
    /\ \E k \in 1..Len(log) : log[k].ev = "exec" /\ log[k].res # "ok"

\* C3: during an Update every statement and every callback is executed on
\* the transaction opened for the call, never on the Session itself.
C3_AllOnTransaction ==
    op \in Updates =>
        \A k \in 1..Len(log) : IsItem(log[k]) => log[k].on = "tx"

\* C4: after an Update failed on an unclaimed statement error or on a
\* callback, the transaction has been rolled back and the Session is closed,
\* whatever the caller asked for.
C4_FailedUpdateRolledBackAndClosed ==
    (pc = "done" /\ op \in Updates /\ err \in {"dup", "fatal", "func"})
        => /\ tx = "rolledback"
           /\ connection \notin openHandles

\* The closing half of C4: after such a failure the Session is closed in
\* both generations of the Update, and no transaction is left open.
FailedUpdateClosesSession ==
    (pc = "done" /\ op \in Updates /\ err \in {"dup", "fatal", "func"})
        => /\ connection \notin openHandles
           /\ tx # "open"
           /\ op = "UpdateTx" => tx = "rolledback" /\ pending = {}

\* C5: DeploySchema on a config whose Session is open returns ErrConnected;
\* it opens nothing, creates no database, executes nothing, and the Session
\* is the same open handle when the call has returned.
C5_DeployRejectsOpenSession ==
    [][/\ (Idle /\ op' = "Deploy" /\ connection # 0 /\ connection \in openHandles)
          => /\ err' = "ErrConnected"
             /\ pc' = "ret"
             /\ defers' = <<>>
             /\ UNCHANGED <<connection, openHandles, committed, dbExists>>
       /\ (op' = "Deploy" /\ err' = "ErrConnected")
          => /\ connection' \in openHandles'
             /\ \A k \in 1..Len(log') : log'[k].ev = "ping"
             /\ pc' \in {"ret", "done"}
       /\ (op = "Deploy" /\ err = "ErrConnected" /\ pc = "ret")
          => UNCHANGED <<connection, openHandles, committed, dbExists>>]_vars

\* A DeploySchema refused on an open Session, which is still open.
C5_Witness ==
    /\ pc = "done"
    /\ op = "Deploy"
    /\ err = "ErrConnected"
    /\ connection \in openHandles

\* C6: an Update called while a Session is open adopts it: the call is not
\* refused, the handle is neither closed nor replaced when the call starts,
\* the Job starts from the schema of that Session's database, and every
\* execution of the Job goes through that handle.
C6_UpdateAdoptsOpenSession ==
    [][/\ (Idle /\ op' \in Updates /\ connection # 0 /\ connection \in openHandles)
          => /\ reused'
             /\ err' # "ErrConnected"
             /\ UNCHANGED <<connection, openHandles, committed>>
             /\ pc' = "r_job" => snap' = committed[DbOf(connection)]
       /\ (op' \in Updates /\ reused')
          => /\ \A k \in 1..Len(log') :
                    /\ log'[k].ev # "open"
                    /\ IsItem(log'[k]) => log'[k].h = connection'
             /\ pc' \in {"u_job", "r_job"} => connection' \in openHandles'
       /\ (op \in Updates /\ reused /\ pc \notin {"done", "idle"})
          => /\ connection' = connection
             /\ (pc = "u_begin" /\ pc' = "u_job")
                   => snap' = committed[DbOf(connection)]]_vars

\* A whole Job run on an adopted Session that already held a schema.
C6_Witness ==
    /\ pc = "done"
    /\ op \in Updates
    /\ reused
    /\ err = "nil"
    /\ snap # {}
    /\ Len(ItemEvents(log)) = NumQueries + NumFuncs

C8_DeployAbortsOnUnclaimed ==
    op = "Deploy" =>
        \A k \in 1..Len(log) :
            (log[k].ev = "exec" /\ log[k].res # "ok" /\ ~ErrClaimed(log[k].res))
                => /\ \A m \in (k + 1)..Len(log) : ~IsItem(log[m])
                   /\ err = log[k].res
                   /\ connection \notin openHandles
                   /\ pc \in {"ret", "done"}

\* A keep-open Deploy whose second statement failed with an unclaimed error.
C8_Witness ==
    /\ pc = "done"
    /\ op = "Deploy"
    /\ ~closeConn
    /\ err \in {"dup", "fatal"}
    /\ Len(ItemEvents(log)) = 2

\* C9: a callback's error is not offered to the handlers and ends the Job:
\* the next thing done is the close of the Session, no later item runs, no
\* commit is issued, and the callback's error is the call's result, whatever
\* the chain.
C9_CallbackFailureFatal ==
    \A k \in 1..Len(log) :
        (log[k].ev = "func" /\ log[k].res # "ok")
            => /\ k < Len(log)
               /\ log[k + 1].ev = "close"
               /\ \A m \in (k + 1)..Len(log) :
                     ~IsItem(log[m]) /\ log[m].ev \notin {"handler", "commit"}
               /\ err = "func"
               /\ connection \notin openHandles
               /\ pc \in {"ret", "done"}

\* A keep-open call whose callback failed under a chain that claims every
\* error.
C9_Witness ==
    /\ pc = "done"
    /\ op \in Orchestrators
    /\ err = "func"
    /\ ~closeConn
    /\ \E k \in 1..Len(chain) : chain[k] = "hAll"

\* C10: when DeploySchema or an Update has returned an error, no handle the
\* call opened and no Session it adopted is open, and no transaction is
\* pending.
C10_ErrorLeavesNothingOpen ==
    (pc = "done" /\ op \in Orchestrators /\ err # "nil")
        => /\ UsedByCall \cap openHandles = {}
           /\ tx # "open"

\* C11: when tx.Commit() fails the call ends there: the commit error is the
\* call's result, the transaction is over without having been committed, the
\* Session is closed, and the schema is what it was before the call.
C11_CommitFailureFatal ==
    \A k \in 1..Len(log) :
        (log[k].ev = "commit" /\ log[k].res # "ok")
            => /\ err = "commit"
               /\ pc \in {"ret", "done"}
               /\ tx = "failed"
               /\ pending = {}
               /\ connection \notin openHandles
               /\ \A m \in (k + 1)..Len(log) : ~IsItem(log[m])
               /\ SessionDbAlive => committed[DbOf(connection)] = snap

\* A failed commit of a Job whose statements had changed the schema inside
\* the transaction, on a database that outlives the Session.
C11_Witness ==
    /\ pc = "done"
    /\ op = "UpdateTx"
    /\ err = "commit"
    /\ ~inMemory
    /\ \E k \in 1..Len(log) : log[k].ev = "exec" /\ log[k].res = "ok"

\* C12: a call that returns the configuration error has done no I/O: it has
\* opened, pinged, used and closed nothing.
C12_ConfigErrorBeforeIO ==
    (op \in Orchestrators /\ err = "config") => log = <<>>

\* What does hold of a configuration error: nothing is opened and nothing
\* is executed; only the handle the config already stored is touched.
ConfigErrorOpensNothing ==
    (op \in Orchestrators /\ err = "config")
        => \A k \in 1..Len(log) :
              log[k].ev \in {"ping", "close"} /\ log[k].h = connection

\* C13: a handler is invoked only on the error of a failed statement: every
\* handler invocation is for a non-nil error and follows, with nothing but
\* handler invocations in between, the failed execution of the statement it
\* is invoked for; after a successful execution no handler is invoked.
C13_HandlersOnlyOnError ==
    \A k \in 1..Len(log) :
        /\ log[k].ev = "handler"
              => /\ log[k].res # "ok"
                 /\ k > 1
                 /\ \/ log[k - 1].ev = "handler" /\ log[k - 1].n = log[k].n
                    \/ /\ log[k - 1].ev = "exec"
                       /\ log[k - 1].n = log[k].n
                       /\ log[k - 1].res = log[k].res
        /\ (log[k].ev = "exec" /\ log[k].res = "ok" /\ k < Len(log))
              => log[k + 1].ev # "handler"

\* A call in which one statement succeeded and another failed and was
\* offered to a handler.
C13_Witness ==
    /\ op \in Orchestrators
    /\ Len(chain) > 0
    /\ \E k \in 1..Len(log) : log[k].ev = "exec" /\ log[k].res = "ok"
    /\ \E k \in 1..Len(log) : log[k].ev = "handler"

\* C14: for a non-nil error the classifier returns true exactly when some
\* handler of the chain claims the error; the handlers invoked are the chain
\* in order up to and including the first that claims, and no other; with
\* an empty chain it returns false.
C14_ClassifierShortCircuit ==
    (hpc = "returned" /\ hErr # "ok")
        => /\ hRet = (\E k \in 1..Len(hChain) : Claims(hChain[k], hErr))
           /\ Len(hCalls) <= Len(hChain)
           /\ \A k \in 1..Len(hCalls) : hCalls[k] = hChain[k]
           /\ \A k \in 1..(Len(hCalls) - 1) : ~Claims(hCalls[k], hErr)
           /\ hRet => Len(hCalls) > 0 /\ Claims(hCalls[Len(hCalls)], hErr)
           /\ ~hRet => Len(hCalls) = Len(hChain)
           /\ hChain = <<>> => ~hRet

\* The classifier returned true on a chain whose claiming handler comes
\* after one that does not claim and before another that would.
C14_Witness ==
    /\ hpc = "returned"
    /\ hErr = "fatal"
    /\ hChain = <<"hDup", "hAll", "hAll">>
    /\ hRet
    /\ hCalls = <<"hDup", "hAll">>

\* The operators the orchestrators use agree with the classifier's code.
ClassifierOperatorsAgree ==
    hpc = "returned"
        => /\ hRet = RunQueryErrorHandlers(hChain, hErr)
           /\ hErr # "ok" =>
                 /\ Len(hCalls) = Len(HandlerCalls(hChain, hErr, 0))
                 /\ \A k \in 1..Len(hCalls) :
                       hCalls[k] = HandlerCalls(hChain, hErr, 0)[k].on

\* The call ran every item of the Job, each statement with success or with
\* a claimed error and each callback with success, and no commit failed.
JobRanClean ==
    /\ Len(ItemEvents(log)) = NumQueries + NumFuncs
    /\ \A k \in 1..Len(log) :
          /\ log[k].ev = "exec" => log[k].res = "ok" \/ ErrClaimed(log[k].res)
          /\ log[k].ev \in {"func", "commit"} => log[k].res = "ok"

\* C15: a statement error claimed by a handler is discarded: it is not the
\* call's result and the next item of the Job is executed; a call in which
\* every execution error was claimed and nothing else failed returns nil,
\* with the changes of its successful items in place and, when it ran in a
\* transaction, that transaction committed.
C15_ClaimedErrorDiscarded ==
    /\ \A k \in 1..Len(log) :
          (log[k].ev = "exec" /\ log[k].res # "ok" /\ ErrClaimed(log[k].res))
              => /\ err # log[k].res
                 /\ pc \in {"ret", "done"}
                       => \E m \in (k + 1)..Len(log) :
                             /\ IsItem(log[m])
                             /\ log[m].ev = "exec" => log[m].n = log[k].n + 1
    /\ (pc = "done" /\ op \in Orchestrators /\ JobRanClean)
          => /\ err = "nil"
             /\ op = "UpdateTx" =>
                   /\ tx = "committed"
                   /\ \E k \in 1..Len(log) : log[k].ev = "commit"
             /\ SessionDbAlive =>
                   committed[DbOf(connection)] = snap \cup AppliedBy(log)

\* A call that returned nil although every one of its statements failed,
\* each with a claimed error.
C15_Witness ==
    /\ pc = "done"
    /\ op \in Orchestrators
    /\ err = "nil"
    /\ \A k \in 1..Len(log) : log[k].ev = "exec" => log[k].res # "ok"
    /\ \E k \in 1..Len(log) : log[k].ev = "exec" /\ log[k].n = NumQueries

\* C16: a provided handler claims only a statement that has a keyword
\* together with an error whose message has one of the re-run phrases: it
\* returns false for a statement with a keyword and an unrelated message,
\* and false for a matching message and a statement without any keyword.
C16_HandlersConjunctive ==
    (epc = "returned" /\ eRet) => eQuery # {} /\ eMsg # {}

\* The handlers that look at both the statement and the message.
ConjunctiveHandlers ==
    eName \notin {"IgnoreErrorSQLiteModify", "IgnoreErrorTableDoesNotExist",
                  "UFAlreadyExists"}
        => C16_HandlersConjunctive

LogHas(k, e) == k \in 1..Len(log) /\ log[k].ev = e

\* The stage of DeploySchema an entry of the log belongs to: the ping of the
\* entry check (0), the server-level conn (1), the create-database step (2), the Session
\* (3: the explicit close of the server-level conn, then Connect), the
\* statements (4), the callbacks (5), the closes on the way out (6).
DeployStage(k) ==
    CASE log[k].ev = "ping" /\ k = 1 -> 0
      [] log[k].ev = "open" /\ log[k].on = "srv" -> 1
      [] log[k].ev = "createdb" -> 2
      [] log[k].ev = "close" /\ log[k].on = "srv" /\ log[k].res # "" -> 3
      [] log[k].ev = "open" /\ log[k].on = "db" -> 3
      [] log[k].ev = "ping" /\ k > 1 -> 3
      [] log[k].ev \in {"exec", "handler"} -> 4
      [] log[k].ev = "func" -> 5
      [] OTHER -> 6

\* C18: the steps of a DeploySchema call follow one another in one
\* direction: entry check, server-level conn, create-database, Session,
\* statements, callbacks, close.  No statement runs before the
\* create-database step succeeded and the Session answered its ping after
\* it; no callback runs before every statement has been run.
C18_DeployLinear ==
    op = "Deploy" =>
        /\ \A j, k \in 1..Len(log) : j < k => DeployStage(j) <= DeployStage(k)
        /\ \A k \in 1..Len(log) :
              IsItem(log[k]) =>
                 \E i, j \in 1..k :
                    /\ i < j
                    /\ LogHas(i, "createdb") /\ log[i].res = "ok"
                    /\ LogHas(j, "ping") /\ log[j].res = "ok"
                    /\ log[j].h = log[k].h
                    /\ \E g \in 1..i : LogHas(g, "open") /\ log[g].on = "srv"
        /\ \A k \in 1..Len(log) :
              LogHas(k, "func") =>
                 \A n \in 1..NumQueries :
                    \E j \in 1..k : LogHas(j, "exec") /\ log[j].n = n

\* A DeploySchema that went through every stage and returned.
C18_Witness ==
    /\ pc = "done"
    /\ op = "Deploy"
    /\ err = "nil"
    /\ \A st \in 1..6 : \E k \in 1..Len(log) : DeployStage(k) = st

\* C19: an orchestrator call on a config c that returned nil executed every
\* statement of c, each successfully or with a claimed error, and ran every
\* callback of c, each successfully.
C19_NilMeansFullyApplied ==
    (mpc = "done" /\ mErr = "nil")
        => /\ \A n \in 1..NumQueries :
                 \E k \in 1..Len(mLog), out \in ExecOutcomes :
                    mLog[k] = Ev("exec", n, "c", out, 0)
           /\ \A n \in 1..NumFuncs :
                 \E k \in 1..Len(mLog) : mLog[k] = Ev("func", n, "c", "ok", 0)

\* The same of the orchestrators that name only their receiver.
NilMeansJobRan ==
    (pc = "done" /\ op \in Orchestrators /\ err = "nil")
        => /\ \A n \in 1..NumQueries :
                 \E k \in 1..Len(log) :
                    /\ LogHas(k, "exec")
                    /\ log[k].n = n
                    /\ log[k].res = "ok" \/ ErrClaimed(log[k].res)
           /\ \A n \in 1..NumFuncs :
                 \E k \in 1..Len(log) :
                    LogHas(k, "func") /\ log[k].n = n /\ log[k].res = "ok"

\* rn(...r2(r1(s))...) for the chain ch = <<r1, ..., rn>>; s for the empty
\* chain.
RECURSIVE Threaded(_, _)
Threaded(ch, s) ==
    IF ch = <<>> THEN s ELSE Threaded(Tail(ch), ApplyTranslator(Head(ch), s))

\* C20: the runner returns the statement threaded through the chain, each
\* rule receiving the output of the rule before it; with an empty chain it
\* returns the statement itself.
C20_TranslateThreads ==
    tpc = "returned" => tOut = Threaded(tChain, tIn)

\* The runner of DeploySchema does so.
DeployRunnerThreads ==
    tFn = "RunDeployQueryTranslators" => C20_TranslateThreads

\* C21: no call of a translation rule panics, whatever the statement: every
\* rule returns a string.
C21_RulesTotal ==
    ~rPanic /\ rpc # "panicked"

\* The statements on which a rule panics have the primary-key clause and no
\* comma before it, except for the rules that slice without looking.
OnlyPrimaryKeyPanics ==
    rPanic =>
        \/ rFn \in {"TFToSQLiteRemovePrimaryKeyDefinition14",
                    "TFToSQLiteRemovePrimaryKeyDefinition"}
        \/ /\ Contains(rIn, PrimaryKeyClause)
           /\ ~Contains(Slice(rIn, 0, Index(rIn, PrimaryKeyClause)), Comma)

\* The patterns a rule looks for in the statement.
Triggers(r) ==
    CASE r = "TFMySQLToSQLiteReformatID" -> {IDColumnMySQL}
      [] r \in {"TFMySQLToSQLiteRemovePrimaryKeyDefinition",
                "TFToSQLiteRemovePrimaryKeyDefinition14",
                "TFToSQLiteRemovePrimaryKeyDefinition"} -> {PrimaryKeyClause}
      [] r = "TFMySQLToSQLiteReformatDefaultTimestamp" -> {DefaultUTC}
      [] r = "TFMySQLToSQLiteReformatDatetime" -> {<<"DATETIME">>}
      [] r = "TFMySQLToSQLiteBLOB" ->
            {<<"TINYBLOB">>, <<"MEDIUMBLOB">>, <<"LONGBLOB">>}
      [] r = "TranslateMariaDBToSQLite" ->
            {<<" ", "INT", " ">>, IDColumnInteger, PrimaryKeyClause, DefaultUTC,
             <<"DATETIME">>, <<"TINYBLOB">>, <<"MEDIUMBLOB">>, <<"LONGBLOB">>,
             <<"VARCHAR">>, <<"DECIMAL">>, <<" ", "BOOLEAN">>, <<" ", "BOOL">>,
             <<" ", "DATE">>, <<" ", "TIME">>}

HasTrigger(r, in) == \E pat \in Triggers(r) : Contains(in, pat)

\* The call is over.
RuleDone == rpc \in {"returned", "panicked"}

\* C22: a rule called on a statement that has none of the rule's trigger
\* patterns returns a string equal to the statement.
C22_PassThrough ==
    (RuleDone /\ ~HasTrigger(rFn, rIn)) => (~rPanic /\ rQ = rIn)

\* The same of the rules that test for their pattern before they slice.
TestingRulesPassThrough ==
    rFn \notin {"TFToSQLiteRemovePrimaryKeyDefinition14",
                "TFToSQLiteRemovePrimaryKeyDefinition"}
        => C22_PassThrough

Blank(t) == t \in {" ", "\n", "\t"}

\* Token i of t is a comma and the next token that is not a blank is x.
CommaThen(t, i, x) ==
    /\ t[i] = ","
    /\ \E j \in (i + 1)..Len(t) :
          /\ t[j] = x
          /\ \A k \in (i + 1)..(j - 1) : Blank(t[k])

DoubleComma(t) == \E i \in 1..Len(t) : CommaThen(t, i, ",")
TrailingComma(t) == \E i \in 1..Len(t) : CommaThen(t, i, ")")

\* The clause is in t and a comma comes before it.
FollowsColumnList(t) ==
    /\ Contains(t, PrimaryKeyClause)
    /\ \E c \in 1..Index(t, PrimaryKeyClause) : t[c] = ","

\* t without the last comma before its first clause and without that clause.
TwoDeletions(t) ==
    LET i == CHOOSE i \in 0..Len(t) :
                 /\ OccursAt(t, PrimaryKeyClause, i)
                 /\ \A j \in 0..(i - 1) : ~OccursAt(t, PrimaryKeyClause, j)
        c == CHOOSE c \in 1..i :
                 t[c] = "," /\ \A d \in (c + 1)..i : t[d] # ","
    IN  SubSeq(t, 1, c - 1) \o SubSeq(t, c + 1, i) \o
        SubSeq(t, i + Len(PrimaryKeyClause) + 1, Len(t))

\* The primary-key removal has run on the text t and left rQ.
PrimaryKeyRemoved(t) ==
    \/ /\ rFn \in {"TFMySQLToSQLiteRemovePrimaryKeyDefinition",
                   "TFToSQLiteRemovePrimaryKeyDefinition14"}
       /\ RuleDone
       /\ t = rIn
    \/ /\ rFn = "TranslateMariaDBToSQLite"
       /\ rpc \in {"keywords", "panicked"}
       /\ t = MariaDBReformatID(rIn)

\* C23: the primary-key removal applied to a text in which a comma comes
\* before PRIMARY KEY(ID) returns that text without the nearest comma before
\* the clause and without the clause, and nothing else changed; the result
\* has a double comma, or a comma right before a ")", only if the text it
\* was given had one.
C23_CommaFixUp ==
    \A t \in {rIn, MariaDBReformatID(rIn)} :
        (PrimaryKeyRemoved(t) /\ FollowsColumnList(t))
            => /\ ~rPanic
               /\ rQ = TwoDeletions(t)
               /\ Len(rQ) = Len(t) - 1 - Len(PrimaryKeyClause)
               /\ DoubleComma(rQ) => DoubleComma(t)
               /\ TrailingComma(rQ) => (TrailingComma(t) \/ DoubleComma(t))

\* The rule has run on the CREATE TABLE statement, which has three commas
\* before the clause.
C23_Witness ==
    /\ rFn = "TFMySQLToSQLiteRemovePrimaryKeyDefinition"
    /\ rpc = "returned"
    /\ rIn = CreateUsers
    /\ rQ # rIn
    /\ FollowsColumnList(rIn)

\* The number of positions of t that hold the token x.
Count(t, x) == Cardinality({i \in 1..Len(t) : t[i] = x})

\* WideColumns with every width-bearing type erased.
WideColumnsErased ==
    <<"a", " ", "TEXT", ",", " ", "b", " ", "REAL", ",", " ", "c", " ",
      "TEXT", ",", " ", "d", " ", "REAL">>

\* C24: what TranslateMariaDBToSQLite returns has no VARCHAR and no DECIMAL
\* left, however many the statement had; the statement with VARCHAR(255) and
\* DECIMAL(10,4) twice each comes back with TEXT and REAL in all four places.
C24_ErasureExhaustive ==
    (rFn = "TranslateMariaDBToSQLite" /\ rpc = "returned")
        => /\ Count(rQ, "VARCHAR") = 0
           /\ Count(rQ, "DECIMAL") = 0
           /\ rIn = WideColumns => rQ = WideColumnsErased

\* The statement with two VARCHAR and two DECIMAL columns has been translated.
C24_Witness ==
    /\ rFn = "TranslateMariaDBToSQLite"
    /\ rpc = "returned"
    /\ rIn = WideColumns
    /\ Count(rIn, "VARCHAR") = 2
    /\ Count(rIn, "DECIMAL") = 2

\* The SQLite statement the documentation gives for CreateUsers.
CreateUsersSQLite ==
    <<"CREATE", " ", "TABLE", " ", "users", " ", "(", "ID", " ", "INTEGER",
      " ", "PRIMARY", " ", "KEY", " ", "AUTOINCREMENT", " ", "NOT", " ",
      "NULL", ",", " ", "Name", " ", "TEXT", " ", "NOT", " ", "NULL", ",",
      " ", "Created", " ", "TEXT", " ", "DEFAULT", " ", "CURRENT_TIMESTAMP",
      ")">>

ScenarioUpToOneBlank ==
    (rFn = "TranslateMariaDBToSQLite" /\ rpc = "returned" /\ rIn = CreateUsers)
        => rQ = SubSeq(CreateUsersSQLite, 1, Len(CreateUsersSQLite) - 1)
                    \o <<" ", ")">>

\* C26: diagnostics are observational only: whatever the logging level and
\* the statement (any length, with or without a parenthesis), the orchestrator
\* gets past the diagnostic line of a statement and executes the statement.
C26_DiagnosticsObservational == dpc # "panicked"

\* The diagnostic line of DeploySchema is built without a panic.
DeploySchemaDiagnosticsTotal == dFn = "DeploySchema" => dpc # "panicked"

\* A statement of 51 to 69 bytes stops UpdateSchema at every logging level,
\* a CREATE TABLE without "(" stops DeploySchemaWithOps.
DiagnosticsPanicOnlyThen ==
    dpc = "panicked" =>
        \/ dFn = "UpdateSchema" /\ dLen > 50 /\ dLen < 70
        \/ dFn = "DeploySchemaWithOps" /\ dCreate /\ dParen = -1

DiagnosticsRan == dpc = "done" /\ dRan /\ dLines = 1
\* ---- the connection over Connect and Close calls
\* c.connection answers a ping after / before call k.
OpenAfter(k) == calls[k].conn # 0 /\ calls[k].conn \in calls[k].open
OpenBefore(k) == calls[k].conn0 # 0 /\ calls[k].conn0 \in calls[k].open0

SucceededConnect(k) == calls[k].call = "Connect" /\ calls[k].err = "nil"
ConnectedBefore(k) == \E j \in 1..(k - 1) : SucceededConnect(j)

\* C27: Connect on a config that is connected returns ErrConnected, and the
\* connection it had is still the config's connection and still open.
C27_ConnectWhenConnected ==
    \A k \in 1..Len(calls) :
        (calls[k].call = "Connect" /\ OpenBefore(k)) =>
            /\ calls[k].err = "ErrConnected"
            /\ calls[k].conn = calls[k].conn0
            /\ calls[k].open = calls[k].open0
            /\ OpenAfter(k)

C27_Witness ==
    \E k \in 1..Len(calls) :
        calls[k].call = "Connect" /\ OpenBefore(k) /\ calls[k].err = "ErrConnected"

\* C28: Connected() follows the calls: false before the first Connect, true
\* after every Connect that returned nil, false after every Close, whatever
\* came before.
C28_ConnectedFollowsCalls ==
    /\ (\A k \in 1..Len(calls) : calls[k].call # "Connect") => ~Connected
    /\ \A k \in 1..Len(calls) :
          /\ SucceededConnect(k) => OpenAfter(k)
          /\ (calls[k].call = "Close" /\ ~calls[k].panicked) => ~OpenAfter(k)
    /\ calls # <<>> => (Connected <=> OpenAfter(Len(calls)))

\* Connect, Close, Connect: connected, not connected, connected again.
C28_Witness ==
    \E k \in 3..Len(calls) :
        /\ SucceededConnect(k - 2) /\ OpenAfter(k - 2)
        /\ calls[k - 1].call = "Close" /\ ~OpenAfter(k - 1)
        /\ SucceededConnect(k) /\ OpenAfter(k)
        /\ Connected

Unclosed(q, kw) ==
    /\ Contains(q, <<kw>>)
    /\ ~Contains(Slice(q, Index(q, <<kw>>), Len(q)), <<")">>)

LoopKeyword == IF rpc = "varchar" THEN "VARCHAR" ELSE "DECIMAL"

\* A loop is followed for MaxIter iterations only when its keyword has no
\* ")" after it: every other statement leaves both loops earlier.
OnlyUnclosedLoopsOn ==
    (rpc \in {"varchar", "decimal"} /\ rIter = MaxIter) => Unclosed(rQ, LoopKeyword)

\* An iteration on such a statement puts the replacement in front of the text
\* and leaves the keyword where it is: the condition of the loop stays true.
UnclosedIterationStalls ==
    [][(rpc \in {"varchar", "decimal"} /\ Unclosed(rQ, LoopKeyword) /\ rIter' = rIter + 1)
        => /\ Len(rQ') = Len(rQ) + 1
           /\ Slice(rQ', 1, Len(rQ')) = rQ
           /\ Unclosed(rQ', LoopKeyword)]_vars
\* ---- the transaction and the Session of the transactional Update
\* C32: the transactional Update never closes the Session while the Job's
\* transaction is open: on every failure path the rollback comes first.
C32_RollbackBeforeClose ==
    (op = "UpdateTx" /\ tx = "open") => connection \in openHandles

\* When the call has returned, the transaction has been ended.
TransactionEndedAtReturn ==
    (op = "UpdateTx" /\ pc = "done") => tx # "open"

\* Without an explicit Close on the way out the order is the stated one: on
\* the success path the deferred Rollback runs before the deferred Close.
DeferredOrderOnSuccess ==
    (op = "UpdateTx" /\ pc = "ret" /\ err = "nil" /\ tx # "none")
        => /\ tx = "committed"
           /\ defers \in {<<"tx.Rollback">>, <<"c.Close", "tx.Rollback">>}
           /\ connection \in openHandles
\* The deferred Rollback of the call ran when the transaction was in state s.
RollbackRanOn(s) ==
    \E k \in 1..Len(log) : log[k].ev = "rollback" /\ log[k].res = s

\* C33: on the success path of the transactional Update the deferred
\* Rollback runs after the commit and changes nothing: the transaction stays
\* committed and the Job's changes are in the schema a later caller sees.
C33_RollbackAfterCommitNoEffect ==
    (op = "UpdateTx" /\ pc = "done" /\ err = "nil")
        => /\ tx = "committed"
           /\ RollbackRanOn("committed")
           /\ SessionDbAlive =>
                 committed[DbOf(connection)] = snap \cup AppliedBy(log)

\* A Job that changed the schema has been committed, its deferred Rollback
\* has run, and the database can still be looked at.
C33_Witness ==
    /\ op = "UpdateTx"
    /\ pc = "done"
    /\ err = "nil"
    /\ RollbackRanOn("committed")
    /\ SessionDbAlive
    /\ AppliedBy(log) # {}
    /\ ~(AppliedBy(log) \subseteq snap)
    /\ AppliedBy(log) \subseteq committed[DbOf(connection)]
\* ---- one Session per Job
\* C34: an orchestrator call runs every statement and every callback of its
\* Job through one and the same Session, the one it established or adopted,
\* and neither opens nor closes a connection between two of them: a Job on an
\* in-memory database stays on one instance.
C34_OneSessionPerJob ==
    op \in Orchestrators =>
        \A j \in 1..Len(log) :
            IsItem(log[j]) =>
                /\ log[j].h = connection
                /\ log[j].h \in UsedByCall
                /\ \A m \in 1..(j - 1) :
                      ~(log[m].ev = "close" /\ log[m].h = log[j].h)
                /\ \A k \in (j + 1)..Len(log) :
                      IsItem(log[k]) =>
                          /\ log[k].h = log[j].h
                          /\ DbOf(log[k].h) = DbOf(log[j].h)
                          /\ \A m \in j..k : log[m].ev \notin {"open", "close"}

\* A whole Job has run on an in-memory database, through a Session that the
\* call adopted from an earlier call.
C34_Witness ==
    /\ op \in Orchestrators
    /\ pc = "done"
    /\ inMemory
    /\ reused
    /\ err = "nil"
    /\ Len(ItemEvents(log)) = NumQueries + NumFuncs
\* ---- UpdateSchemaWithOps on c and the package-level configuration
\* What a step of the call does to anything but c: it runs a callback that
\* is not c's, changes the connection of the other configuration, or fails
\* on reading the package-level configuration.
TouchesOnlyC ==
    /\ \A k \in 1..Len(mLog') : mLog'[k].on = "c"
    /\ mOther' = mOther
    /\ mpc' # "panic"

\* C35: UpdateSchemaWithOps called on a config c touches only c: the
\* callbacks it runs are c's, the connection it closes is c's, and it does
\* not depend on the package-level configuration.
C35_TouchesOnlyReceiver == [][TouchesOnlyC]_vars

\* It does, when the package-level configuration is c itself.
ReceiverOnlyWhenCfgIsC == [][mCfg = "c" => TouchesOnlyC]_vars
\* ---- what a failed Connect leaves behind
FailedConnect(k) ==
    calls[k].call = "Connect" /\ calls[k].err \notin {"nil", "ErrConnected"}

\* C36: a Connect that fails leaves nothing open: the handles open after it
\* are those open before it, also when the open succeeded and the ping
\* failed, and Connected() is false.
C36_FailedConnectLeavesNothingOpen ==
    \A k \in 1..Len(calls) :
        FailedConnect(k) =>
            /\ calls[k].open = calls[k].open0
            /\ ~OpenAfter(k)

\* Connected() is false after every failed Connect, and a Connect that
\* failed before or at sqlx.Open leaves no handle.
FailedConnectNotConnected ==
    \A k \in 1..Len(calls) :
        FailedConnect(k) =>
            /\ ~OpenAfter(k)
            /\ calls[k].conn = calls[k].conn0
            /\ calls[k].err # "ping" => calls[k].open = calls[k].open0
\* C37: Close is safe in every state of the config: it returns, also on a
\* config that has never been connected.
C37_CloseNeverPanics ==
    \A k \in 1..Len(calls) : calls[k].call = "Close" => ~calls[k].panicked

\* Close panics exactly when no connection was ever stored in the config.
ClosePanicsIffNeverConnected ==
    \A k \in 1..Len(calls) :
        calls[k].call = "Close" => (calls[k].panicked <=> calls[k].conn0 = 0)
\* ---- the server-level connection of DeploySchema
\* C38: the server-level connection DeploySchema opens for the
\* create-database step is closed before the Session is opened, and it is
\* closed when DeploySchema has returned, with or without an error.
C38_ServerConnClosed ==
    op = "Deploy" =>
        /\ \A k \in 1..Len(log) :
              (log[k].ev = "open" /\ log[k].on = "db") =>
                  \E m \in 1..(k - 1) :
                      log[m].ev = "close" /\ log[m].on = "srv" /\ log[m].h = srv
        /\ pc = "d_job" => srv \notin openHandles
        /\ pc = "done" => srv \notin openHandles

\* DeploySchema has returned nil with the Session left open; the
\* server-level connection it had opened is closed.
C38_Witness ==
    /\ op = "Deploy"
    /\ pc = "done"
    /\ err = "nil"
    /\ srv # 0
    /\ srv \notin openHandles
    /\ connection \in openHandles
    /\ \E k \in 1..Len(log) : log[k].ev = "open" /\ log[k].on = "srv"
====
